---- MODULE Spec2Model ----
(***************************************************************************)
(* The ENT authentication flows of pronotepy/ent/generic_func.py.          *)
(*                                                                         *)
(* One invocation of one flow function is a sequential process.  Every     *)
(* state of the model is a position the program can be in: not yet called  *)
(* (pc = "idle"), blocked in an HTTP request whose reply has not arrived   *)
(* (pc = the label of that request, the request already in `log`), or      *)
(* finished (pc = "done", `outcome` holds the value returned or the        *)
(* exception raised).  The environment is the remote servers: each reply   *)
(* (status, final URL, HTML/JSON body, Set-Cookie) is drawn from a         *)
(* catalogue.  Strings are TLA+ strings, so substring tests, prefixes and  *)
(* concatenations are computed as Python computes them.                    *)
(***************************************************************************)
EXTENDS Integers, Sequences, FiniteSets, TLC

VARIABLES
    strategy,   \* the flow function invoked, "idle" before the call
    args,       \* its arguments
    pc,         \* "idle", the label of the request in flight, or "done"
    log,        \* the HTTP exchanges so far: each request and, once it came, its reply
    jars,       \* jars[s]: the cookie jar of the s-th Session created
    sess,       \* the Session the running function uses (index in jars)
    response,   \* the last response received (`response`, `r`, self.response)
    locals,     \* the local variables that live across requests
    outcome     \* what the call returned or raised

vars == <<strategy, args, pc, log, jars, sess, response, locals, outcome>>

-----------------------------------------------------------------------------
(* Bounds of the explored input space.                                     *)

\* Login forms carry 0..MaxHidden hidden inputs (lt, execution, ...).
MaxHidden == 2

-----------------------------------------------------------------------------
(* Python values.                                                          *)

\* Python's None where a string is expected (an absent attribute, no URL).
None == "<None>"

\* bool(s) of an optional string: None and "" are falsy.
Truthy(s) == s # None /\ s # ""

\* `t in s` on strings.
Contains(s, t) ==
    \E i \in 1..(Len(s) - Len(t) + 1) : SubSeq(s, i, i + Len(t) - 1) = t

\* s.startswith(p)
StartsWith(s, p) == Len(s) >= Len(p) /\ SubSeq(s, 1, Len(p)) = p

\* s.find(t) + 1: the 1-based index of the first occurrence, 0 when absent.
IndexOf(s, t) ==
    IF Contains(s, t)
    THEN CHOOSE i \in 1..(Len(s) - Len(t) + 1) :
            /\ SubSeq(s, i, i + Len(t) - 1) = t
            /\ \A j \in 1..(i - 1) : SubSeq(s, j, j + Len(t) - 1) # t
    ELSE 0

\* The index of the first of "/", "?", "#" in s, 0 when there is none.
FirstDelim(s) ==
    LET hits == {i \in 1..Len(s) : SubSeq(s, i, i) \in {"/", "?", "#"}}
    IN  IF hits = {} THEN 0 ELSE CHOOSE i \in hits : \A j \in hits : i <= j

\* urlparse(url).netloc
Netloc(url) ==
    LET i == IndexOf(url, "://")
    IN  IF i = 0 THEN ""
        ELSE LET rest == SubSeq(url, i + 3, Len(url))
                 j    == FirstDelim(rest)
             IN  IF j = 0 THEN rest ELSE SubSeq(rest, 1, j - 1)

\* scheme://netloc of an absolute URL.
Origin(url) ==
    SubSeq(url, 1, IndexOf(url, "://") + 2 + Len(Netloc(url)))

\* What follows scheme://netloc (path, query, fragment).
AfterNetloc(url) == SubSeq(url, Len(Origin(url)) + 1, Len(url))

\* The URLs requests accepts: Session.request prepares the request before any
\* I/O and raises MissingSchema / InvalidURL for a URL without an http(s)
\* scheme or without a host (str(None) = "None" has no scheme either).
ValidUrl(url) ==
    /\ url # None
    /\ StartsWith(url, "http://") \/ StartsWith(url, "https://")
    /\ Netloc(url) # ""

\* urljoin(base, ref): an absolute ref replaces the base, a rooted ref keeps the
\* base's scheme and host, an empty ref is the base, any other ref replaces
\* the last segment of the base's path.
urljoin(base, ref) ==
    IF ref = "" THEN base
    ELSE IF Contains(ref, "://") THEN ref
    ELSE IF StartsWith(ref, "/") THEN Origin(base) \o ref
    ELSE LET rest  == AfterNetloc(base)
             q     == IndexOf(rest, "?")
             path  == IF q = 0 THEN rest ELSE SubSeq(rest, 1, q - 1)
             cuts  == {i \in 1..Len(path) : SubSeq(path, i, i) = "/"}
             last  == IF cuts = {} THEN 0
                      ELSE CHOOSE i \in cuts : \A j \in cuts : j <= i
         IN  IF StartsWith(ref, "?") THEN Origin(base) \o path \o ref
             ELSE Origin(base) \o (IF last = 0 THEN "/" ELSE SubSeq(path, 1, last)) \o ref

\* urllib's quote_plus on the characters the flows put in query values.
RECURSIVE Quote(_)
Quote(s) ==
    IF s = "" THEN ""
    ELSE LET ch == SubSeq(s, 1, 1)
             q  == CASE ch = ":" -> "%3A"
                     [] ch = "/" -> "%2F"
                     [] ch = "?" -> "%3F"
                     [] ch = "=" -> "%3D"
                     [] ch = "&" -> "%26"
                     [] ch = " " -> "+"
                     [] OTHER    -> ch
         IN  q \o Quote(SubSeq(s, 2, Len(s)))

\* The URL requests prepares for get(url, params=params): params is a sequence
\* of <<key, value>> pairs, appended as a quoted query string.
RECURSIVE EncodeParams(_)
EncodeParams(params) ==
    IF params = <<>> THEN ""
    ELSE params[1][1] \o "=" \o Quote(params[1][2])
         \o (IF Len(params) > 1 THEN "&" ELSE "")
         \o EncodeParams(Tail(params))

WithParams(url, params) ==
    IF params = <<>> THEN url
    ELSE url \o (IF Contains(url, "?") THEN "&" ELSE "?") \o EncodeParams(params)

\* A dict with string keys; d[k] = v added or overwritten.
EmptyDict == [k \in {} |-> ""]

DictSet(d, k, v) == [x \in DOMAIN d \cup {k} |-> IF x = k THEN v ELSE d[x]]

-----------------------------------------------------------------------------
(* The parsed HTML document (BeautifulSoup(response.text, "html.parser")). *)
(* A body is [forms, elems, text, json]: the <form> elements in document   *)
(* order, the <input>/<button> elements in document order (each with the   *)
(* index of its enclosing form, 0 outside any form), the rest of the raw   *)
(* text, and the decoded JSON document (OzeENT API replies).               *)

Form(cls, id, action) == [cls |-> cls, id |-> id, action |-> action]

Elem(tag, type, name, value, form) ==
    [tag |-> tag, type |-> type, name |-> name, value |-> value, form |-> form]

NoJson == [json |-> FALSE]

Body(forms, elems, text) ==
    [forms |-> forms, elems |-> elems, text |-> text, json |-> NoJson]

\* soup.find(tag, {key: value}): the index of the first element with that tag
\* (any tag when tag = None) whose attribute key is value; 0 when none.
SoupFind(body, tag, key, value) ==
    LET hits == {i \in 1..Len(body.elems) :
                    /\ tag = None \/ body.elems[i].tag = tag
                    /\ body.elems[i][key] = value}
    IN  IF hits = {} THEN 0 ELSE CHOOSE i \in hits : \A j \in hits : i <= j

\* soup.find("form", attrs): the index of the first form matching attrs, a
\* dict over "class" and "id" (None: the attribute is not constrained).
FindForm(body, attrs) ==
    LET hits == {f \in 1..Len(body.forms) :
                    /\ attrs.cls = None \/ body.forms[f].cls = attrs.cls
                    /\ attrs.id = None \/ body.forms[f].id = attrs.id}
    IN  IF hits = {} THEN 0 ELSE CHOOSE f \in hits : \A g \in hits : f <= g

AnyForm == [cls |-> None, id |-> None]

\* AuthSession.find_form_field
find_form_field(body, key, value, attr) ==
    LET tag   == IF value = "submit" THEN None ELSE "input"
        field == SoupFind(body, tag, key, value)
    IN  IF field # 0 THEN body.elems[field][attr] ELSE None

form_field_user(body) == find_form_field(body, "type", "text", "name")

form_field_password(body) == find_form_field(body, "type", "password", "name")

form_field_submit(body) == find_form_field(body, "type", "submit", "name")

\* AuthSession.saml: the first of SAMLRequest, SAMLResponse whose input has a
\* non-empty value, as a dict; EmptyDict stands for None (an empty dict is
\* falsy as None is, and the property never returns one).
saml(body) ==
    LET req == find_form_field(body, "name", "SAMLRequest", "value")
        rsp == find_form_field(body, "name", "SAMLResponse", "value")
    IN  IF Truthy(req) THEN DictSet(EmptyDict, "SAMLRequest", req)
        ELSE IF Truthy(rsp) THEN DictSet(EmptyDict, "SAMLResponse", rsp)
        ELSE EmptyDict

\* post_form's loop with the test `name not in payload` left out: a field of
\* the page replaces the value the caller passed.
RECURSIVE CollectFieldsOverwrite(_, _)
CollectFieldsOverwrite(elems, payload) ==
    IF elems = <<>> THEN payload
    ELSE LET field == Head(elems)
             name  == field.name
             value == IF field.value = None THEN "" ELSE field.value
         IN  CollectFieldsOverwrite(Tail(elems),
                 IF Truthy(name) THEN DictSet(payload, name, value) ELSE payload)

\* The loop of AuthSession.post_form over find_all(["input", "button"]): a
\* named field is added unless the payload already has its name; a field
\* without a value attribute counts as "".
RECURSIVE CollectFields(_, _)
CollectFields(elems, payload) ==
    IF elems = <<>> THEN payload
    ELSE LET field == Head(elems)
             name  == field.name
             value == IF field.value = None THEN "" ELSE field.value
         IN  CollectFields(Tail(elems),
                 IF Truthy(name) /\ name \notin DOMAIN payload
                 THEN DictSet(payload, name, value)
                 ELSE payload)

\* The loop `for input_ in form.findAll("input"): payload[input_["name"]] =
\* input_.get("value")` of _cas, _simple_auth and _oze_ent over the inputs of
\* form f: a later input overwrites an earlier one of the same name.
FormInputs(body, f) ==
    SelectSeq(body.elems, LAMBDA e : e.tag = "input" /\ e.form = f)

RECURSIVE InputsPayload(_, _)
InputsPayload(inputs, payload) ==
    IF inputs = <<>> THEN payload
    ELSE InputsPayload(Tail(inputs),
             DictSet(payload, Head(inputs).name, Head(inputs).value))

\* input_["name"] raises KeyError for an input without a name attribute.
AllNamed(inputs) == \A i \in 1..Len(inputs) : inputs[i].name # None

-----------------------------------------------------------------------------
(* The running call: requests, replies, sessions, return and raise.        *)

\* HEADERS["User-Agent"], the one header of the HEADERS dict.
USER_AGENT == "Mozilla/5.0 (X11; Ubuntu; Linux x86_64; rv:73.0) Gecko/20100101 Firefox/73.0"

HEADERS == DictSet(EmptyDict, "User-Agent", USER_AGENT)

\* A reply whose final URL is the URL requested (no redirect followed).
Same == "<same>"

BlankBody == Body(<<>>, <<>>, "")

\* The value None where a Response is expected; also the reply of a request
\* still in flight.
NoResponse ==
    [none |-> TRUE, status |-> 0, url |-> None, body |-> BlankBody, cookie |-> FALSE]

\* bool(response): None is falsy, and Response.__bool__ is Response.ok, false
\* for a 4xx or 5xx status.
RespOk(r) == ~r.none /\ r.status < 400

\* outcome.kind is "running", "return" or "raise"; a return carries the kind
\* of value returned ("cookies", "None", "response") and the jar's content.
Running == [kind |-> "running", exc |-> "", msg |-> "", value |-> "", cookies |-> {}]

\* The state as one record, so that a step of the code is a function on it.
Cfg ==
    [strategy |-> strategy, args |-> args, pc |-> pc, log |-> log, jars |-> jars,
     sess |-> sess, response |-> response, locals |-> locals, outcome |-> outcome]

SetCfg(c) ==
    /\ strategy' = c.strategy
    /\ args' = c.args
    /\ pc' = c.pc
    /\ log' = c.log
    /\ jars' = c.jars
    /\ sess' = c.sess
    /\ response' = c.response
    /\ locals' = c.locals
    /\ outcome' = c.outcome

\* `raise exc(msg)`: nothing catches an exception in this module, so the call
\* ends with it.
Raise(c, exc, msg) ==
    [c EXCEPT !.pc = "done",
              !.outcome = [kind |-> "raise", exc |-> exc, msg |-> msg,
                           value |-> "", cookies |-> {}]]

\* `return session.cookies` of the session the function is using.
ReturnCookies(c) ==
    [c EXCEPT !.pc = "done",
              !.outcome = [kind |-> "return", exc |-> "", msg |-> "",
                           value |-> "cookies", cookies |-> c.jars[c.sess]]]

\* `return None`
ReturnNone(c) ==
    [c EXCEPT !.pc = "done",
              !.outcome = [kind |-> "return", exc |-> "", msg |-> "",
                           value |-> "None", cookies |-> {}]]

\* `return response` of _educonnect to a caller outside this module.
ReturnResponse(c, resp) ==
    [c EXCEPT !.pc = "done",
              !.outcome = [kind |-> "return", exc |-> "", msg |-> "",
                           value |-> IF resp.none THEN "None" ELSE "response",
                           cookies |-> {}]]

Ended(c) == c.pc = "done"

\* `with requests.Session() as session` / `with AuthSession() as session`: a
\* new Session with an empty jar becomes the one the function uses.
NewSession(c, kind) ==
    [c EXCEPT !.jars = Append(@, {}),
              !.sess = Len(c.jars) + 1,
              !.locals.sessKind = kind]

\* session.request(method, url, headers=headers, data=data): the request is
\* prepared (an invalid URL raises before any I/O), sent, and the function
\* blocks at `label` until the reply arrives.
Request(c, label, method, url, data, headers) ==
    IF ~ValidUrl(url)
    THEN Raise(c, "MissingSchema", "Invalid URL")
    ELSE [c EXCEPT !.pc = label,
                   !.log = Append(@, [label |-> label, method |-> method, url |-> url,
                                      data |-> data, headers |-> headers,
                                      sess |-> c.sess, resp |-> NoResponse])]

\* The reply to the request in flight (the n-th of the call) arrives.  An
\* AuthSession runs the hook r.raise_for_status() first (AuthSession.__init__),
\* which raises HTTPError for a 4xx or 5xx status; a plain requests.Session has
\* no such hook.  Otherwise the reply's cookie (named n) goes to the jar of the
\* session that sent the request, and the response becomes the current one.
Receive(c, reply) ==
    LET n    == Len(c.log)
        resp == [none |-> FALSE, status |-> reply.status,
                 url |-> IF reply.loc = Same THEN c.log[n].url ELSE reply.loc,
                 body |-> reply.body, cookie |-> reply.cookie]
        seen == [c EXCEPT !.log[n].resp = resp]
    IN  IF c.locals.sessKind = "AuthSession" /\ reply.status >= 400
        THEN Raise(seen, "HTTPError", "raise_for_status")
        ELSE [seen EXCEPT
                !.response = resp,
                !.jars[c.sess] = @ \cup (IF reply.cookie THEN {n} ELSE {})]

-----------------------------------------------------------------------------
(* AuthSession.post_form and generic_auth.                                 *)

\* AuthSession.post_form(payload): the page's named inputs and buttons are
\* added to the payload, the first form's action is made absolute when it
\* starts with "/", and the payload is posted there without HEADERS.  No form
\* on the page: None["action"] raises TypeError; a form without an action
\* attribute: KeyError.
post_form(c, label, payload) ==
    LET body == c.response.body
        data == CollectFields(body.elems, payload)
        f    == FindForm(body, AnyForm)
        url  == body.forms[f].action
    IN  IF f = 0 THEN Raise(c, "TypeError", "'NoneType' object is not subscriptable")
        ELSE IF url = None THEN Raise(c, "KeyError", "action")
        ELSE Request(c, label, "POST",
                     IF StartsWith(url, "/") THEN urljoin(c.response.url, url) ELSE url,
                     data, EmptyDict)

\* generic_auth up to its first request: session.get(pronote_url).
generic_auth(c) ==
    Request(NewSession(c, "AuthSession"), "ga_get", "GET", c.args.pronote_url,
            EmptyDict, EmptyDict)

\* generic_auth's lines 84-97 ending, without a login form and without SAML,
\* in `return session.cookies` instead of `return None`.
generic_auth_login_jar(c) ==
    LET body       == c.response.body
        field_user == form_field_user(body)
        field_pass == form_field_password(body)
    IN  IF Truthy(field_pass)
        THEN IF ~Truthy(field_user) \/ ~Truthy(field_pass)
             THEN Raise(c, "ENTLoginError", "Invalid login form")
             ELSE post_form(c, "ga_cred",
                      DictSet(DictSet(EmptyDict, field_user, c.args.username),
                              field_pass, c.args.password))
        ELSE IF c.locals.has_saml
        THEN Raise(c, "ENTLoginError", "SAML connection failure")
        ELSE ReturnCookies(c)

\* generic_auth, lines 84-97: the login form, or the end without one.
generic_auth_login(c) ==
    LET body       == c.response.body
        field_user == form_field_user(body)
        field_pass == form_field_password(body)
    IN  IF Truthy(field_pass)
        THEN IF ~Truthy(field_user) \/ ~Truthy(field_pass)
             THEN Raise(c, "ENTLoginError", "Invalid login form")
             ELSE post_form(c, "ga_cred",
                      DictSet(DictSet(EmptyDict, field_user, c.args.username),
                              field_pass, c.args.password))
        ELSE IF c.locals.has_saml
        THEN Raise(c, "ENTLoginError", "SAML connection failure")
        ELSE ReturnNone(c)

\* The reply to session.get(pronote_url): lines 79-83.
On_ga_get(c, reply) ==
    LET d == Receive(c, reply)
        e == [d EXCEPT !.locals.has_saml = saml(d.response.body) # EmptyDict]
    IN  IF Ended(d) THEN d
        ELSE IF e.locals.has_saml THEN post_form(e, "ga_idp", EmptyDict)
        ELSE generic_auth_login(e)

\* The reply to the SAML request posted to the identity provider (line 83).
On_ga_idp(c, reply) ==
    LET d == Receive(c, reply)
    IN  IF Ended(d) THEN d ELSE generic_auth_login(d)

\* Lines 98-104 without the test `if not session.saml`: the SP leg is tried
\* whatever the reply to the credentials holds.
On_ga_cred_unchecked(c, reply) ==
    LET d == Receive(c, reply)
    IN  IF Ended(d) THEN d
        ELSE IF d.locals.has_saml THEN post_form(d, "ga_sp", EmptyDict)
        ELSE ReturnCookies(d)

\* The reply to the credentials (line 97): lines 98-104.
On_ga_cred(c, reply) ==
    LET d == Receive(c, reply)
    IN  IF Ended(d) THEN d
        ELSE IF d.locals.has_saml
        THEN IF saml(d.response.body) = EmptyDict
             THEN Raise(d, "ENTLoginError", "SAML login failure")
             ELSE post_form(d, "ga_sp", EmptyDict)
        ELSE ReturnCookies(d)

\* The reply to the SAML response posted to the service provider (line 103).
On_ga_sp(c, reply) ==
    LET d == Receive(c, reply)
    IN  IF Ended(d) THEN d ELSE ReturnCookies(d)

-----------------------------------------------------------------------------
(* _open_ent_ng and the tail of _open_ent_ng_edu.                          *)

\* _open_ent_ng(username, password, url): a new Session and the credential
\* POST.  Also the fallback of _open_ent_ng_edu, which calls it with the URL
\* it computed.
_open_ent_ng(c, url) ==
    IF url = "" THEN Raise(c, "ENTLoginError", "Missing url attribute")
    ELSE Request(NewSession(c, "Session"), "ng_post", "POST", url,
                 DictSet(DictSet(EmptyDict, "email", c.args.username),
                         "password", c.args.password),
                 HEADERS)

\* The reply to the credential POST: lines 309-314.
On_ng_post(c, reply) ==
    LET d == Receive(c, reply)
    IN  IF Ended(d) THEN d
        ELSE IF Contains(d.response.url, "login")
        THEN Raise(d, "ENTLoginError", "Fail to connect with Open NG : probably wrong login information")
        ELSE ReturnCookies(d)

\* _open_ent_ng_edu without its fallback: whatever _educonnect returned, the
\* session's cookies are returned.
open_ent_ng_edu_after_nofallback(c, resp) ==
    ReturnCookies(c)

\* _open_ent_ng_edu after _educonnect returned `resp`: lines 361-369.
open_ent_ng_edu_after(c, resp) ==
    IF ~RespOk(resp)
    THEN _open_ent_ng(c, c.args.domain \o "/auth/login")
    ELSE IF Contains(resp.url, "login")
    THEN _open_ent_ng(c, resp.url)
    ELSE ReturnCookies(c)

-----------------------------------------------------------------------------
(* _educonnect and _sso_redirect, and what their callers do next.          *)

\* The value _educonnect returns goes back to its caller: _cas_edu, _wayf and
\* _hubeduconnect ignore it and return session.cookies.  locals.returned
\* keeps what was returned.
educonnect_return(c, resp) ==
    LET d == [c EXCEPT !.locals.returned = IF resp.none THEN "None" ELSE "response"]
    IN  CASE c.locals.eduCaller = "_open_ent_ng_edu" -> open_ent_ng_edu_after(d, resp)
          [] c.locals.eduCaller = "caller"           -> ReturnResponse(d, resp)
          [] OTHER                                   -> ReturnCookies(d)

\* _educonnect after _sso_redirect returned `resp`: lines 174-181.
educonnect_after(c, resp) ==
    IF ~RespOk(resp)
    THEN IF c.locals.exceptions
         THEN Raise(c, "ENTLoginError", "Fail to connect with EduConnect : probably wrong login information")
         ELSE educonnect_return(c, NoResponse)
    ELSE educonnect_return(c, resp)

\* _educonnect opening a Session of its own for its POST instead of using the
\* one it is given.
_educonnect_own_session(c, caller, url, exceptions) ==
    LET payload == DictSet(DictSet(DictSet(EmptyDict, "j_username", c.args.username),
                                   "j_password", c.args.password),
                           "_eventId_proceed", "")
    IN  IF url = "" THEN Raise(c, "ENTLoginError", "Missing url attribute")
        ELSE Request([NewSession(c, "Session")
                         EXCEPT !.locals.eduCaller = caller,
                                !.locals.exceptions = exceptions,
                                !.locals.url = url,
                                !.locals.payload = payload],
                     "edu_post", "POST", url, payload, HEADERS)

\* _educonnect(session, username, password, url, exceptions) up to its POST.
_educonnect(c, caller, url, exceptions) ==
    LET payload == DictSet(DictSet(DictSet(EmptyDict, "j_username", c.args.username),
                                   "j_password", c.args.password),
                           "_eventId_proceed", "")
    IN  IF url = "" THEN Raise(c, "ENTLoginError", "Missing url attribute")
        ELSE Request([c EXCEPT !.locals.eduCaller = caller,
                               !.locals.exceptions = exceptions,
                               !.locals.url = url,
                               !.locals.payload = payload],
                     "edu_post", "POST", url, payload, HEADERS)

\* Lines 222-225 with _educonnect given the URL the call started from instead
\* of response.url.
after_redirect_first_url(c, caller, resp) ==
    IF ~RespOk(resp) THEN Raise(c, "ENTLoginError", "Connection failure")
    ELSE _educonnect(c, caller, c.log[1].url, TRUE)

\* _cas_edu and _wayf after the redirect step: lines 222-225, 430-433.
after_redirect(c, caller, resp) ==
    IF ~RespOk(resp) THEN Raise(c, "ENTLoginError", "Connection failure")
    ELSE _educonnect(c, caller, resp.url, TRUE)

HubEmptyService == "<label id=\"zone_msgDetail\">L&#x27;url de service est vide</label>"

HubUntrusted == "n&#x27;est pas une url de confiance."

\* _hubeduconnect after _sso_redirect returned `resp`: lines 613-627.
hubeduconnect_after(c, resp) ==
    IF ~RespOk(resp) THEN Raise(c, "ENTLoginError", "Connection failure")
    ELSE IF Contains(resp.body.text, HubEmptyService)
    THEN Raise(c, "ENTLoginError", "Fail to connect with HubEduConnect : Service URL not provided.")
    ELSE IF Contains(resp.body.text, HubUntrusted)
    THEN Raise(c, "ENTLoginError", "Fail to connect with HubEduConnect : Service URL not trusted. Is Pronote instance supported?")
    ELSE _educonnect(c, "_hubeduconnect", resp.url, TRUE)

\* The value _sso_redirect returns goes back to its caller.
sso_return(c, resp) ==
    CASE c.locals.ssoCaller = "_educonnect"    -> educonnect_after(c, resp)
      [] c.locals.ssoCaller = "_hubeduconnect" -> hubeduconnect_after(c, resp)
      [] OTHER -> after_redirect(c, c.locals.ssoCaller, resp)

\* _sso_redirect, lines 123-137, on the current response: no artifact returns
\* None; otherwise the artifact (and RelayState) is posted to the form's
\* action as it stands in the page.  `assert isinstance(relay_state, Tag)`
\* raises AssertionError for a page without a RelayState input unless Python
\* runs with assertions off (args.debug is __debug__).
sso_submit(c) ==
    LET body    == c.response.body
        tag     == SoupFind(body, "input", "name", c.locals.saml_type)
        relay   == SoupFind(body, "input", "name", "RelayState")
        payload == DictSet(EmptyDict, c.locals.saml_type, body.elems[tag].value)
        f       == FindForm(body, AnyForm)
    IN  IF tag = 0 THEN sso_return(c, NoResponse)
        ELSE IF relay = 0 /\ c.args.debug THEN Raise(c, "AssertionError", "")
        ELSE IF relay # 0 /\ body.elems[relay].value = None
        THEN Raise(c, "KeyError", "value")
        ELSE IF f = 0 THEN Raise(c, "TypeError", "'NoneType' object is not subscriptable")
        ELSE IF body.forms[f].action = None THEN Raise(c, "KeyError", "action")
        ELSE Request(c, "sso_post", "POST", body.forms[f].action,
                     IF relay # 0
                     THEN DictSet(payload, "RelayState", body.elems[relay].value)
                     ELSE payload,
                     HEADERS)

\* Lines 114-121 with the manual redirect sent to request_url, the URL first
\* requested, instead of response.url.
_sso_redirect_same_url(c, caller, saml_type, request_url, request_payload) ==
    LET d   == [c EXCEPT !.locals.ssoCaller = caller, !.locals.saml_type = saml_type]
        tag == SoupFind(c.response.body, "input", "name", saml_type)
    IN  IF tag = 0 /\ c.response.status = 200 /\ request_url # c.response.url
        THEN Request(d, "sso_manual", "POST", request_url, request_payload, HEADERS)
        ELSE sso_submit(d)

\* _sso_redirect(session, response, saml_type, request_url, request_payload),
\* lines 114-121, on the current response: the manual redirect, or straight
\* on to the rest.
_sso_redirect(c, caller, saml_type, request_url, request_payload) ==
    LET d   == [c EXCEPT !.locals.ssoCaller = caller, !.locals.saml_type = saml_type]
        tag == SoupFind(c.response.body, "input", "name", saml_type)
    IN  IF tag = 0 /\ c.response.status = 200 /\ request_url # c.response.url
        THEN Request(d, "sso_manual", "POST", c.response.url, request_payload, HEADERS)
        ELSE sso_submit(d)

\* The reply to the manual redirect run through the test of lines 117-119
\* again: a reply without the artifact is followed by another manual redirect.
On_sso_manual_again(c, reply) ==
    LET d == Receive(c, reply)
    IN  IF Ended(d) THEN d
        ELSE _sso_redirect(d, d.locals.ssoCaller, d.locals.saml_type, "", EmptyDict)

\* The reply to the manual redirect (line 119).
On_sso_manual(c, reply) ==
    LET d == Receive(c, reply)
    IN  IF Ended(d) THEN d ELSE sso_submit(d)

\* The reply to the artifact POST (line 137) is what _sso_redirect returns.
On_sso_post(c, reply) ==
    LET d == Receive(c, reply)
    IN  IF Ended(d) THEN d ELSE sso_return(d, d.response)

\* The reply to the Educonnect credential POST (line 172): line 173.
On_edu_post(c, reply) ==
    LET d == Receive(c, reply)
    IN  IF Ended(d) THEN d
        ELSE _sso_redirect(d, "_educonnect", "SAMLResponse", d.locals.url, d.locals.payload)

-----------------------------------------------------------------------------
(* _cas_edu, _open_ent_ng_edu, _wayf and _hubeduconnect.                   *)

\* _cas_edu up to its first request (lines 211-218).
_cas_edu(c) ==
    IF c.args.url = "" THEN Raise(c, "ENTLoginError", "Missing url attribute")
    ELSE Request(NewSession(c, "Session"), "casedu_get", "GET", c.args.url,
                 EmptyDict, HEADERS)

\* The reply to the GET of _cas_edu: lines 220-225.
On_casedu_get(c, reply) ==
    LET d == Receive(c, reply)
    IN  IF Ended(d) THEN d
        ELSE IF d.args.redirect_form
        THEN _sso_redirect(d, "_cas_edu", "SAMLResponse", d.args.url, EmptyDict)
        ELSE after_redirect(d, "_cas_edu", d.response)

EDUCONNECT_SSO == "https://educonnect.education.gouv.fr/idp/profile/SAML2/Unsolicited/SSO"

\* _open_ent_ng_edu up to its first request (lines 341-356).
_open_ent_ng_edu(c) ==
    LET providerId == IF c.args.providerId = ""
                      THEN c.args.domain \o "/auth/saml/metadata/idp.xml"
                      ELSE c.args.providerId
    IN  IF c.args.domain = "" THEN Raise(c, "ENTLoginError", "Missing domain attribute")
        ELSE Request(NewSession(c, "Session"), "ngedu_get", "GET",
                     WithParams(EDUCONNECT_SSO, << <<"providerId", providerId>> >>),
                     EmptyDict, HEADERS)

\* The reply to the GET of _open_ent_ng_edu: lines 357-359.
On_ngedu_get(c, reply) ==
    LET d == Receive(c, reply)
    IN  IF Ended(d) THEN d
        ELSE _educonnect(d, "_open_ent_ng_edu", d.response.url, FALSE)

\* f"{domain}/discovery/WAYF"
WayfLoginPage(domain) == domain \o "/discovery/WAYF"

\* _wayf up to its first request (lines 405-426).
_wayf(c) ==
    LET domain   == c.args.domain
        entityID == IF c.args.entityID = "" THEN domain \o "/shibboleth"
                    ELSE c.args.entityID
        returnX  == IF c.args.returnX = "" THEN domain \o "/Shibboleth.sso/Login"
                    ELSE c.args.returnX
        params   == << <<"entityID", entityID>>, <<"returnX", returnX>>,
                       <<"returnIDParam", "entityID">>, <<"action", "selection">>,
                       <<"origin", "https://educonnect.education.gouv.fr/idp">> >>
    IN  IF domain = "" THEN Raise(c, "ENTLoginError", "Missing domain attribute")
        ELSE Request(NewSession(c, "Session"), "wayf_get", "GET",
                     WithParams(WayfLoginPage(domain), params), EmptyDict, HEADERS)

\* The reply to the GET of _wayf: lines 428-433.
On_wayf_get(c, reply) ==
    LET d == Receive(c, reply)
    IN  IF Ended(d) THEN d
        ELSE IF d.args.redirect_form
        THEN _sso_redirect(d, "_wayf", "SAMLRequest", WayfLoginPage(d.args.domain),
                           EmptyDict)
        ELSE after_redirect(d, "_wayf", d.response)

HUBEDUCONNECT_URL == "https://hubeduconnect.index-education.net/EduConnect/cas/login"

\* f"{hubeduconnect_url}?service={pronote_url}"
HubUrl(pronote_url) == HUBEDUCONNECT_URL \o "?service=" \o pronote_url

\* _hubeduconnect up to its first request (lines 606-610): pronote_url is
\* not checked.
_hubeduconnect(c) ==
    Request(NewSession(c, "Session"), "hub_get", "GET", HubUrl(c.args.pronote_url),
            EmptyDict, HEADERS)

\* The reply to the GET of _hubeduconnect: line 612.
On_hub_get(c, reply) ==
    LET d == Receive(c, reply)
    IN  IF Ended(d) THEN d
        ELSE _sso_redirect(d, "_hubeduconnect", "SAMLRequest",
                           HubUrl(d.args.pronote_url), EmptyDict)

-----------------------------------------------------------------------------
(* _cas and _simple_auth.                                                  *)

\* The credential POST built from every input of the page, whatever form it
\* is in, and sent to the URL the call was given.
post_login_form_whole_page(c, label, attrs, username) ==
    LET body   == c.response.body
        form   == FindForm(body, attrs)
        inputs == SelectSeq(body.elems, LAMBDA e : e.tag = "input")
        payload == DictSet(DictSet(InputsPayload(inputs, EmptyDict),
                                   "username", username),
                           "password", c.args.password)
    IN  IF form = 0
        THEN Raise(c, "AttributeError", "'NoneType' object has no attribute 'findAll'")
        ELSE IF ~AllNamed(inputs) THEN Raise(c, "KeyError", "name")
        ELSE Request(c, label, "POST", c.args.url, payload, HEADERS)

\* Lines 260-268 (_cas), 566-574 (_simple_auth), 473-481 (_oze_ent): the
\* inputs of the form matching attrs, overlaid with the credentials, posted
\* to the URL of the login page's response.  No such form: None.findAll
\* raises AttributeError; an input without a name: KeyError.
post_login_form(c, label, attrs, username) ==
    LET body   == c.response.body
        form   == FindForm(body, attrs)
        inputs == FormInputs(body, form)
        payload == DictSet(DictSet(InputsPayload(inputs, EmptyDict),
                                   "username", username),
                           "password", c.args.password)
    IN  IF form = 0
        THEN Raise(c, "AttributeError", "'NoneType' object has no attribute 'findAll'")
        ELSE IF ~AllNamed(inputs) THEN Raise(c, "KeyError", "name")
        ELSE Request(c, label, "POST", c.response.url, payload, HEADERS)

CasForm == [cls |-> "cas__login-form", id |-> None]

\* _cas up to its first request (lines 251-258).
_cas(c) ==
    IF c.args.url = "" THEN Raise(c, "ENTLoginError", "Missing url attribute")
    ELSE Request(NewSession(c, "Session"), "cas_get", "GET", c.args.url,
                 EmptyDict, HEADERS)

\* The reply to the GET of _cas: lines 260-268.
On_cas_get(c, reply) ==
    LET d == Receive(c, reply)
    IN  IF Ended(d) THEN d
        ELSE post_login_form(d, "cas_post", CasForm, d.args.username)

\* The reply to the credential POST of _cas taken as a success whatever the
\* page holds.
On_cas_post_unchecked(c, reply) ==
    LET d == Receive(c, reply)
    IN  IF Ended(d) THEN d ELSE ReturnCookies(d)

\* The reply to the credential POST of _cas: lines 269-276.
On_cas_post(c, reply) ==
    LET d == Receive(c, reply)
    IN  IF Ended(d) THEN d
        ELSE IF FindForm(d.response.body, CasForm) # 0
        THEN Raise(d, "ENTLoginError", "Fail to connect with CAS : probably wrong login information")
        ELSE ReturnCookies(d)

\* _simple_auth up to its first request (lines 557-564).
_simple_auth(c) ==
    IF c.args.url = "" THEN Raise(c, "ENTLoginError", "Missing url attribute")
    ELSE Request(NewSession(c, "Session"), "sa_get", "GET", c.args.url,
                 EmptyDict, HEADERS)

\* The reply to the GET of _simple_auth: lines 566-574.
On_sa_get(c, reply) ==
    LET d == Receive(c, reply)
    IN  IF Ended(d) THEN d
        ELSE post_login_form(d, "sa_post", d.args.form_attr, d.args.username)

\* The reply to the credential POST of _simple_auth: lines 575-582.
On_sa_post(c, reply) ==
    LET d == Receive(c, reply)
    IN  IF Ended(d) THEN d
        ELSE IF FindForm(d.response.body, d.args.form_attr) # 0
        THEN Raise(d, "ENTLoginError", "Fail to connect : probably wrong login information")
        ELSE ReturnCookies(d)

-----------------------------------------------------------------------------
(* _oze_ent.  A decoded JSON document is [json |-> TRUE, array, obj, items]: *)
(* an object (a record) or an array (a sequence of records); NoJson is a   *)
(* body that is not JSON, for which r.json() raises.                       *)

JsonObject(o) == [json |-> TRUE, array |-> FALSE, obj |-> o, items |-> <<>>]

JsonArray(items) == [json |-> TRUE, array |-> TRUE, obj |-> EmptyDict, items |-> items]

JsonBody(j) == [forms |-> <<>>, elems |-> <<>>, text |-> "", json |-> j]

OzeForm == [cls |-> None, id |-> "kc-form-login"]

\* Lines 468-471 with the operands of `in` exchanged: `username not in domain`.
OzeUsernameSwapped(username, url) ==
    LET domain == Netloc(url)
    IN  IF ~Contains(domain, username) THEN username \o "@" \o domain ELSE username

\* Lines 468-471: the username gets "@<host>" unless it contains the host.
OzeUsername(username, url) ==
    LET domain == Netloc(url)
    IN  IF ~Contains(username, domain) THEN username \o "@" \o domain ELSE username

\* Lines 489-491: urlunparse(urlparse(url)._replace(netloc="api-" + netloc)).
OzeApiUrl(url) ==
    SubSeq(url, 1, IndexOf(url, "://") + 2) \o "api-" \o Netloc(url) \o AfterNetloc(url)

\* The ctx_profil / ctx_etab query parameters of lines 502-505 and 518-520.
OzeCtx(c) == << <<"ctx_profil", c.locals.ctx_profil>>, <<"ctx_etab", c.locals.ctx_etab>> >>

\* Lines 510-513: the externalRoute of the last app whose code is "pronote",
\* joined to url; None without such an app.
RECURSIVE OzeProxyFromApps(_, _, _)
OzeProxyFromApps(apps, url, found) ==
    IF apps = <<>> THEN found
    ELSE OzeProxyFromApps(Tail(apps), url,
             IF Head(apps).code = "pronote"
             THEN urljoin(url, Head(apps).externalRoute)
             ELSE found)

\* app["code"] and app["externalRoute"] raise KeyError for a missing key.
OzeAppsWellFormed(apps) ==
    \A i \in 1..Len(apps) :
        /\ "code" \in DOMAIN apps[i]
        /\ apps[i].code = "pronote" => "externalRoute" \in DOMAIN apps[i]

\* _oze_ent up to its first request (lines 459-466).
_oze_ent(c) ==
    IF c.args.url = "" THEN Raise(c, "ENTLoginError", "Missing url attribute")
    ELSE Request(NewSession(c, "Session"), "oze_get", "GET", c.args.url,
                 EmptyDict, HEADERS)

\* The reply to the GET of _oze_ent: lines 468-481.
On_oze_get(c, reply) ==
    LET d == Receive(c, reply)
    IN  IF Ended(d) THEN d
        ELSE post_login_form(d, "oze_post", OzeForm,
                             OzeUsername(d.args.username, d.args.url))

\* The reply to the credential POST of _oze_ent: lines 483-495.
On_oze_post(c, reply) ==
    LET d == Receive(c, reply)
    IN  IF Ended(d) THEN d
        ELSE IF Contains(d.response.body.text, "auth_form")
        THEN Raise(d, "ENTLoginError", "Fail to connect with Oze ENT : probably wrong login information")
        ELSE Request(d, "oze_info", "GET",
                     urljoin(OzeApiUrl(d.args.url), "/v1/users/me"), EmptyDict, HEADERS)

\* The reply of /v1/users/me: lines 496-506.
On_oze_info(c, reply) ==
    LET d    == Receive(c, reply)
        info == d.response.body.json
        prof == info.obj.currentProfil
    IN  IF Ended(d) THEN d
        ELSE IF ~info.json THEN Raise(d, "JSONDecodeError", "")
        ELSE IF info.array THEN Raise(d, "TypeError", "list indices must be integers")
        ELSE IF "currentProfil" \notin DOMAIN info.obj THEN Raise(d, "KeyError", "currentProfil")
        ELSE IF "codeProfil" \notin DOMAIN prof THEN Raise(d, "KeyError", "codeProfil")
        ELSE IF "uai" \notin DOMAIN prof THEN Raise(d, "KeyError", "uai")
        ELSE LET e == [d EXCEPT !.locals.ctx_profil = prof.codeProfil,
                                !.locals.ctx_etab = prof.uai]
             IN  Request(e, "oze_apps", "GET",
                         WithParams(urljoin(OzeApiUrl(d.args.url), "/v1/ozapps"), OzeCtx(e)),
                         EmptyDict, HEADERS)

\* Lines 509-521 without the test `if not proxysso_url`: the configuration
\* endpoint is asked whatever the apps listing holds.
On_oze_apps_always_config(c, reply) ==
    LET d       == Receive(c, reply)
        ozeapps == d.response.body.json
    IN  IF Ended(d) THEN d
        ELSE IF ~ozeapps.json THEN Raise(d, "JSONDecodeError", "")
        ELSE IF ~ozeapps.array /\ DOMAIN ozeapps.obj # {}
        THEN Raise(d, "TypeError", "string indices must be integers")
        ELSE IF ~OzeAppsWellFormed(ozeapps.items) THEN Raise(d, "KeyError", "code")
        ELSE Request(d, "oze_config", "GET",
                     WithParams(urljoin(OzeApiUrl(d.args.url), "/v1/config/Pronote"), OzeCtx(d)),
                     EmptyDict, HEADERS)

\* The reply of /v1/ozapps: lines 509-521 and, with a pronote app, line 526.
On_oze_apps(c, reply) ==
    LET d            == Receive(c, reply)
        ozeapps      == d.response.body.json
        proxysso_url == OzeProxyFromApps(ozeapps.items, d.args.url, None)
    IN  IF Ended(d) THEN d
        ELSE IF ~ozeapps.json THEN Raise(d, "JSONDecodeError", "")
        ELSE IF ~ozeapps.array /\ DOMAIN ozeapps.obj # {}
        THEN Raise(d, "TypeError", "string indices must be integers")
        ELSE IF ~OzeAppsWellFormed(ozeapps.items) THEN Raise(d, "KeyError", "code")
        ELSE IF ~Truthy(proxysso_url)
        THEN Request(d, "oze_config", "GET",
                     WithParams(urljoin(OzeApiUrl(d.args.url), "/v1/config/Pronote"), OzeCtx(d)),
                     EmptyDict, HEADERS)
        ELSE Request(d, "oze_proxy", "GET", proxysso_url, EmptyDict, HEADERS)

\* The reply of /v1/config/Pronote: lines 522-526.
On_oze_config(c, reply) ==
    LET d   == Receive(c, reply)
        cfg == d.response.body.json
        proxysso_url ==
            IF Truthy(cfg.obj.autorisationId) /\ Truthy(cfg.obj.projet)
            THEN d.args.url \o "cas/proxySSO/" \o cfg.obj.autorisationId
                 \o "?uai=" \o d.locals.ctx_etab \o "&projet=" \o cfg.obj.projet
                 \o "&fonction=ELV"
            ELSE None
    IN  IF Ended(d) THEN d
        ELSE IF ~cfg.json THEN Raise(d, "JSONDecodeError", "")
        ELSE IF cfg.array THEN Raise(d, "TypeError", "list indices must be integers")
        ELSE IF "autorisationId" \notin DOMAIN cfg.obj THEN Raise(d, "KeyError", "autorisationId")
        ELSE IF Truthy(cfg.obj.autorisationId) /\ "projet" \notin DOMAIN cfg.obj
        THEN Raise(d, "KeyError", "projet")
        ELSE Request(d, "oze_proxy", "GET", proxysso_url, EmptyDict, HEADERS)

\* The reply to the proxy-SSO GET (line 526): line 527.
On_oze_proxy(c, reply) ==
    LET d == Receive(c, reply)
    IN  IF Ended(d) THEN d ELSE ReturnCookies(d)

-----------------------------------------------------------------------------
(* The environment: the pages and replies the remote servers may send.     *)

HiddenNames == <<"lt", "execution", "_eventId", "geolocation">>

HiddenValues == <<"LT-1", "e1", "submit", "">>

\* The first k hidden inputs of a login form, inside form f.
HiddenInputs(k, f) ==
    [i \in 1..k |-> Elem("input", "hidden", HiddenNames[i], HiddenValues[i], f)]

\* A login page: a search box outside the form, then one form (class cls, id
\* id) with k hidden inputs, a username and a password input and a submit
\* button.  A prefilled page carries values in the username and password
\* inputs.
LoginPage(cls, id, action, k, prefilled) ==
    Body(<<Form(cls, id, action)>>,
         <<Elem("input", "search", "q", "news", 0)>>
         \o HiddenInputs(k, 1)
         \o <<Elem("input", "text", "username", IF prefilled THEN "bob" ELSE "", 1),
              Elem("input", "password", "password", IF prefilled THEN "hunter2" ELSE None, 1),
              Elem("button", "submit", "submit", "Login", 1)>>,
         "")

\* A login page whose submit input has no name attribute.
UnnamedInputPage(cls, id, action) ==
    Body(<<Form(cls, id, action)>>,
         <<Elem("input", "text", "username", "", 1),
           Elem("input", "password", "password", None, 1),
           Elem("input", "submit", None, "Login", 1)>>,
         "")

\* A page with a password input and no text input.
PasswordOnlyPage ==
    Body(<<Form(None, None, "/auth/login")>>,
         <<Elem("input", "password", "password", None, 1)>>, "")

\* A page whose only form is a search form.
SearchPage ==
    Body(<<Form("search", "search-form", "/search")>>,
         <<Elem("input", "search", "q", "", 1)>>, "")

\* A SAML front-channel page: the artifact, RelayState when relay, inside a
\* form posting to action when hasForm.
SamlPage(kind, relay, hasForm, action) ==
    LET f == IF hasForm THEN 1 ELSE 0
    IN  Body(IF hasForm THEN <<Form(None, None, action)>> ELSE <<>>,
             <<Elem("input", "hidden", kind, "PHNhbWw+", f)>>
             \o (IF relay THEN <<Elem("input", "hidden", "RelayState", "rs-token", f)>>
                 ELSE <<>>)
             \o <<Elem("input", "submit", None, "Continue", f)>>,
             "")

\* A page without forms or inputs whose text is `text`.
TextPage(text) == Body(<<>>, <<>>, text)

UserName == "alice"

PassWord == "secret"

EntHost == "ent.example.org"

EntDomain == "https://" \o EntHost

PronoteUrl == "https://pronote.example.org/pronote/"

IdpUrl == "https://idp.example.org/idp/profile/SAML2/POST/SSO"

HomeUrl == "https://ent.example.org/timeline"

LoginErrorUrl == "https://ent.example.org/auth/login?error=1"

SimpleForm == [cls |-> None, id |-> "login-form"]

\* The functions of the module a caller invokes: the flow strategies, and the
\* _educonnect helper called on its own with a session of the caller's.
Strategies ==
    {"generic_auth", "_cas_edu", "_cas", "_open_ent_ng", "_open_ent_ng_edu",
     "_wayf", "_oze_ent", "_simple_auth", "_hubeduconnect", "_educonnect"}

\* The arguments of a call with every keyword at its default.
DefaultArgs ==
    [username |-> UserName, password |-> PassWord, url |-> "", domain |-> "",
     pronote_url |-> "", redirect_form |-> TRUE, form_attr |-> AnyForm,
     providerId |-> "", entityID |-> "", returnX |-> "", exceptions |-> TRUE,
     debug |-> TRUE]

\* The calls explored for each flow function: its required parameter blank
\* or set, the flags both ways, and (where the flow reaches an assert
\* statement) Python with and without assertions.
ArgsFor(s) ==
    CASE s = "generic_auth" ->
            {[DefaultArgs EXCEPT !.pronote_url = u] : u \in {"", PronoteUrl}}
      [] s = "_hubeduconnect" ->
            {[DefaultArgs EXCEPT !.pronote_url = u, !.debug = g] :
                u \in {"", PronoteUrl}, g \in BOOLEAN}
      [] s \in {"_cas_edu"} ->
            {[DefaultArgs EXCEPT !.url = u, !.redirect_form = b, !.debug = g] :
                u \in {"", EntDomain \o "/cas/login"}, b \in BOOLEAN, g \in BOOLEAN}
      [] s = "_wayf" ->
            {[DefaultArgs EXCEPT !.domain = u, !.redirect_form = b, !.debug = g] :
                u \in {"", EntDomain}, b \in BOOLEAN, g \in BOOLEAN}
      [] s = "_open_ent_ng_edu" ->
            {[DefaultArgs EXCEPT !.domain = u, !.debug = g] :
                u \in {"", EntDomain}, g \in BOOLEAN}
      [] s = "_open_ent_ng" ->
            {[DefaultArgs EXCEPT !.url = u] : u \in {"", EntDomain \o "/auth/login"}}
      [] s = "_cas" ->
            {[DefaultArgs EXCEPT !.url = u] : u \in {"", EntDomain \o "/cas/login"}}
      [] s = "_simple_auth" ->
            {[DefaultArgs EXCEPT !.url = u, !.form_attr = a] :
                u \in {"", EntDomain \o "/connexion"}, a \in {AnyForm, SimpleForm}}
      [] s = "_oze_ent" ->
            {[DefaultArgs EXCEPT !.url = u, !.username = n] :
                u \in {"", EntDomain \o "/"},
                n \in {UserName, UserName \o "@" \o EntHost}}
      [] s = "_educonnect" ->
            {[DefaultArgs EXCEPT !.url = u, !.exceptions = x, !.debug = g] :
                u \in {"", IdpUrl}, x \in BOOLEAN, g \in BOOLEAN}

\* A reply: final status, final URL (Same: no redirect), body, and whether it
\* carries a Set-Cookie header.
Reply(status, loc, body, cookie) ==
    [status |-> status, loc |-> loc, body |-> body, cookie |-> cookie]

OkReplies(bodies, locs) ==
    {Reply(200, l, b, k) : l \in locs, b \in bodies, k \in BOOLEAN}

\* An error reply: status 500, no redirect, no cookie.
ErrReplies(bodies) == {Reply(500, Same, b, FALSE) : b \in bodies}

\* The pages a server may answer a login-page GET or a credential POST with,
\* for a login form of class cls and id id.
LoginBodies(cls, id) ==
    {LoginPage(cls, id, "/auth/login", k, FALSE) : k \in 0..MaxHidden}
    \cup {LoginPage(cls, id, "/auth/login", MaxHidden, TRUE),
          UnnamedInputPage(cls, id, "/auth/login"), SearchPage, BlankBody}

AfterLoginBodies(cls, id) ==
    {LoginPage(cls, id, "/auth/login", 0, FALSE), SearchPage, BlankBody}

\* The pages of the SAML legs, for an artifact of the given kind.
SamlBodies(kind) ==
    {SamlPage(kind, TRUE, TRUE, IdpUrl), SamlPage(kind, FALSE, TRUE, IdpUrl),
     SamlPage(kind, TRUE, FALSE, IdpUrl), SamlPage(kind, TRUE, TRUE, "/saml/acs"),
     BlankBody}

\* The pages generic_auth may meet: SAML pages of both kinds, login forms
\* (rooted and relative action), a form without a user field, nothing.
GenericBodies ==
    {SamlPage("SAMLRequest", TRUE, TRUE, IdpUrl),
     SamlPage("SAMLRequest", TRUE, FALSE, IdpUrl),
     SamlPage("SAMLResponse", TRUE, TRUE, "/saml/acs"),
     LoginPage(None, "login", "login.php", 0, FALSE),
     PasswordOnlyPage, BlankBody}
    \cup {LoginPage(None, "login", "/auth/login", k, FALSE) : k \in 0..MaxHidden}

OzeInfoBodies ==
    {JsonBody(JsonObject([currentProfil |-> [codeProfil |-> "ELEVE", uai |-> "0750001A"]])),
     JsonBody(JsonObject([message |-> "unauthorized"])),
     BlankBody}

OzeAppsBodies ==
    {JsonBody(JsonArray(<<[code |-> "mail", externalRoute |-> "/mail"],
                          [code |-> "pronote", externalRoute |-> "/cas/proxySSO/7"]>>)),
     JsonBody(JsonArray(<<[code |-> "mail", externalRoute |-> "/mail"]>>)),
     JsonBody(JsonArray(<<[code |-> "pronote"]>>)),
     JsonBody(JsonArray(<<>>)),
     BlankBody}

OzeConfigBodies ==
    {JsonBody(JsonObject([autorisationId |-> "7", projet |-> "PRONOTE"])),
     JsonBody(JsonObject([autorisationId |-> "", projet |-> ""])),
     JsonBody(JsonObject([message |-> "not found"])),
     BlankBody}

\* The replies the environment may give to the request in flight.
Replies(c) ==
    CASE c.pc \in {"ga_get", "ga_idp", "ga_cred"} ->
            OkReplies(GenericBodies, {Same, HomeUrl}) \cup ErrReplies({BlankBody})
      [] c.pc = "ga_sp" ->
            OkReplies({BlankBody}, {Same, HomeUrl}) \cup ErrReplies({BlankBody})
      [] c.pc = "cas_get" ->
            OkReplies(LoginBodies("cas__login-form", None), {Same, IdpUrl})
            \cup ErrReplies({BlankBody, LoginPage("cas__login-form", None, "/auth/login", 0, FALSE)})
      [] c.pc = "cas_post" ->
            OkReplies(AfterLoginBodies("cas__login-form", None), {Same, HomeUrl})
            \cup ErrReplies(AfterLoginBodies("cas__login-form", None))
      [] c.pc = "sa_get" ->
            OkReplies(LoginBodies(None, "login-form"), {Same, IdpUrl})
            \cup ErrReplies({BlankBody, LoginPage(None, "login-form", "/auth/login", 0, FALSE)})
      [] c.pc = "sa_post" ->
            OkReplies(AfterLoginBodies(None, "login-form"), {Same, HomeUrl})
            \cup ErrReplies(AfterLoginBodies(None, "login-form"))
      [] c.pc = "ng_post" ->
            OkReplies({BlankBody}, {Same, HomeUrl, LoginErrorUrl})
            \cup ErrReplies({BlankBody})
      [] c.pc = "ngedu_get" ->
            OkReplies({BlankBody}, {Same, IdpUrl}) \cup ErrReplies({BlankBody})
      [] c.pc = "casedu_get" ->
            OkReplies(SamlBodies("SAMLResponse"), {Same, IdpUrl})
            \cup ErrReplies({BlankBody, SamlPage("SAMLResponse", TRUE, TRUE, IdpUrl)})
      [] c.pc = "wayf_get" ->
            OkReplies(SamlBodies("SAMLRequest"), {Same, IdpUrl})
            \cup ErrReplies({BlankBody, SamlPage("SAMLRequest", TRUE, TRUE, IdpUrl)})
      [] c.pc = "hub_get" ->
            OkReplies(SamlBodies("SAMLRequest")
                      \cup {TextPage(HubEmptyService), TextPage(HubUntrusted)},
                      {Same, IdpUrl})
            \cup ErrReplies({BlankBody, SamlPage("SAMLRequest", TRUE, TRUE, IdpUrl)})
      [] c.pc = "sso_manual" ->
            OkReplies(SamlBodies(c.locals.saml_type), {Same})
            \cup ErrReplies({BlankBody, SamlPage(c.locals.saml_type, TRUE, TRUE, IdpUrl)})
      [] c.pc = "sso_post" ->
            OkReplies({BlankBody}
                      \cup (IF c.locals.ssoCaller = "_hubeduconnect"
                            THEN {TextPage(HubEmptyService), TextPage(HubUntrusted)}
                            ELSE {}),
                      {Same, HomeUrl}
                      \cup (IF c.strategy = "_open_ent_ng_edu" THEN {LoginErrorUrl} ELSE {}))
            \cup ErrReplies({BlankBody})
      [] c.pc = "edu_post" ->
            OkReplies(SamlBodies("SAMLResponse"), {Same, IdpUrl})
            \cup ErrReplies({BlankBody, SamlPage("SAMLResponse", TRUE, TRUE, IdpUrl)})
      [] c.pc = "oze_get" ->
            OkReplies(LoginBodies(None, "kc-form-login"), {Same, IdpUrl})
            \cup ErrReplies({BlankBody})
      [] c.pc = "oze_post" ->
            OkReplies({BlankBody, TextPage("<div class=\"auth_form\">Invalid</div>")},
                      {Same, HomeUrl})
            \cup ErrReplies({BlankBody})
      [] c.pc = "oze_info" -> OkReplies(OzeInfoBodies, {Same}) \cup ErrReplies({BlankBody})
      [] c.pc = "oze_apps" -> OkReplies(OzeAppsBodies, {Same}) \cup ErrReplies({BlankBody})
      [] c.pc = "oze_config" -> OkReplies(OzeConfigBodies, {Same}) \cup ErrReplies({BlankBody})
      [] c.pc = "oze_proxy" -> OkReplies({BlankBody}, {Same, HomeUrl}) \cup ErrReplies({BlankBody})
      [] OTHER -> {}

-----------------------------------------------------------------------------
(* The state machine.                                                      *)

Locals0 ==
    [sessKind |-> "", has_saml |-> FALSE, ssoCaller |-> "", saml_type |-> "",
     eduCaller |-> "", exceptions |-> TRUE, url |-> "", payload |-> EmptyDict,
     returned |-> "", ctx_profil |-> "", ctx_etab |-> ""]

Init ==
    /\ strategy = "idle"
    /\ args = DefaultArgs
    /\ pc = "idle"
    /\ log = <<>>
    /\ jars = <<>>
    /\ sess = 0
    /\ response = NoResponse
    /\ locals = Locals0
    /\ outcome = Running

\* The flow function s, from its call to its first request (or to the
\* exception it raises before one).
Enter(s, c) ==
    CASE s = "generic_auth"     -> generic_auth(c)
      [] s = "_cas_edu"         -> _cas_edu(c)
      [] s = "_cas"             -> _cas(c)
      [] s = "_open_ent_ng"     -> _open_ent_ng(c, c.args.url)
      [] s = "_open_ent_ng_edu" -> _open_ent_ng_edu(c)
      [] s = "_wayf"            -> _wayf(c)
      [] s = "_oze_ent"         -> _oze_ent(c)
      [] s = "_simple_auth"     -> _simple_auth(c)
      [] s = "_hubeduconnect"   -> _hubeduconnect(c)
      [] s = "_educonnect"      ->
            _educonnect(NewSession(c, "Session"), "caller", c.args.url, c.args.exceptions)

\* A caller invokes one flow function.
Invoke ==
    /\ pc = "idle"
    /\ \E s \in Strategies : \E a \in ArgsFor(s) :
          SetCfg(Enter(s, [Cfg EXCEPT !.strategy = s, !.args = a]))

\* The reply to the request in flight arrives and the function runs on to its
\* next request or to its end.
Reply_ga_get == pc = "ga_get" /\ \E r \in Replies(Cfg) : SetCfg(On_ga_get(Cfg, r))

Reply_ga_idp == pc = "ga_idp" /\ \E r \in Replies(Cfg) : SetCfg(On_ga_idp(Cfg, r))

Reply_ga_cred == pc = "ga_cred" /\ \E r \in Replies(Cfg) : SetCfg(On_ga_cred(Cfg, r))

Reply_ga_sp == pc = "ga_sp" /\ \E r \in Replies(Cfg) : SetCfg(On_ga_sp(Cfg, r))

Reply_sso_manual == pc = "sso_manual" /\ \E r \in Replies(Cfg) : SetCfg(On_sso_manual(Cfg, r))

Reply_sso_post == pc = "sso_post" /\ \E r \in Replies(Cfg) : SetCfg(On_sso_post(Cfg, r))

Reply_edu_post == pc = "edu_post" /\ \E r \in Replies(Cfg) : SetCfg(On_edu_post(Cfg, r))

Reply_casedu_get == pc = "casedu_get" /\ \E r \in Replies(Cfg) : SetCfg(On_casedu_get(Cfg, r))

Reply_cas_get == pc = "cas_get" /\ \E r \in Replies(Cfg) : SetCfg(On_cas_get(Cfg, r))

Reply_cas_post == pc = "cas_post" /\ \E r \in Replies(Cfg) : SetCfg(On_cas_post(Cfg, r))

Reply_ng_post == pc = "ng_post" /\ \E r \in Replies(Cfg) : SetCfg(On_ng_post(Cfg, r))

Reply_ngedu_get == pc = "ngedu_get" /\ \E r \in Replies(Cfg) : SetCfg(On_ngedu_get(Cfg, r))

Reply_wayf_get == pc = "wayf_get" /\ \E r \in Replies(Cfg) : SetCfg(On_wayf_get(Cfg, r))

Reply_oze_get == pc = "oze_get" /\ \E r \in Replies(Cfg) : SetCfg(On_oze_get(Cfg, r))

Reply_oze_post == pc = "oze_post" /\ \E r \in Replies(Cfg) : SetCfg(On_oze_post(Cfg, r))

Reply_oze_info == pc = "oze_info" /\ \E r \in Replies(Cfg) : SetCfg(On_oze_info(Cfg, r))

Reply_oze_apps == pc = "oze_apps" /\ \E r \in Replies(Cfg) : SetCfg(On_oze_apps(Cfg, r))

Reply_oze_config == pc = "oze_config" /\ \E r \in Replies(Cfg) : SetCfg(On_oze_config(Cfg, r))

Reply_oze_proxy == pc = "oze_proxy" /\ \E r \in Replies(Cfg) : SetCfg(On_oze_proxy(Cfg, r))

Reply_sa_get == pc = "sa_get" /\ \E r \in Replies(Cfg) : SetCfg(On_sa_get(Cfg, r))

Reply_sa_post == pc = "sa_post" /\ \E r \in Replies(Cfg) : SetCfg(On_sa_post(Cfg, r))

Reply_hub_get == pc = "hub_get" /\ \E r \in Replies(Cfg) : SetCfg(On_hub_get(Cfg, r))

Next ==
    \/ Invoke
    \/ Reply_ga_get \/ Reply_ga_idp \/ Reply_ga_cred \/ Reply_ga_sp
    \/ Reply_sso_manual \/ Reply_sso_post \/ Reply_edu_post
    \/ Reply_casedu_get \/ Reply_cas_get \/ Reply_cas_post
    \/ Reply_ng_post \/ Reply_ngedu_get \/ Reply_wayf_get
    \/ Reply_oze_get \/ Reply_oze_post \/ Reply_oze_info \/ Reply_oze_apps
    \/ Reply_oze_config \/ Reply_oze_proxy
    \/ Reply_sa_get \/ Reply_sa_post \/ Reply_hub_get

Spec == Init /\ [][Next]_vars

-----------------------------------------------------------------------------
(* Vocabulary of the properties.                                           *)

Done == pc = "done"

Raised == outcome.kind = "raise"

ReturnedCookies == outcome.kind = "return" /\ outcome.value = "cookies"

\* The flow strategies (the functions that return a cookie jar).
FlowStrategies == Strategies \ {"_educonnect"}

\* The parameter a strategy requires, as the call received it.
RequiredParam ==
    CASE strategy \in {"generic_auth", "_hubeduconnect"} -> args.pronote_url
      [] strategy \in {"_open_ent_ng_edu", "_wayf"}      -> args.domain
      [] OTHER                                           -> args.url

\* The i-th request has been answered.
Answered(i) == i \in 1..Len(log) /\ ~log[i].resp.none

\* The cookies set by the replies of the call so far.
CookiesSet == {i \in 1..Len(log) : log[i].resp.cookie}

\* An exception reporting rejected credentials.
LoginRejected ==
    /\ Raised
    /\ outcome.exc = "ENTLoginError"
    /\ Contains(outcome.msg, "probably wrong login information")

-----------------------------------------------------------------------------
(* C1.                                                                     *)

\* C1 as claimed: in every strategy and in the _educonnect sub-flow, a call
\* whose required parameter is blank ends in a raised failure with no HTTP
\* request issued.
C1_BlankParamNeverRequests ==
    (strategy # "idle" /\ RequiredParam = "") => (Raised /\ log = <<>>)

-----------------------------------------------------------------------------
(* C2.                                                                     *)

\* C2 as claimed: a request answered with a 4xx/5xx status is the last request
\* of the call, and the call has ended in a transport failure (no jar
\* returned).
C2_HttpErrorAborts ==
    \A i \in 1..Len(log) :
        (Answered(i) /\ log[i].resp.status >= 400) =>
            /\ i = Len(log)
            /\ Raised
            /\ outcome.exc = "HTTPError"

-----------------------------------------------------------------------------
(* C3.                                                                     *)

FormStrategies == {"_cas", "_simple_auth", "_open_ent_ng", "_oze_ent"}

\* The position of the credential POST among the requests of a form strategy.
CredIndex == IF strategy = "_open_ent_ng" THEN 1 ELSE 2

\* The strategy's rejection marker in the response to the credential POST.
RejectionMarker ==
    LET r == log[CredIndex].resp
    IN  CASE strategy = "_cas"         -> \E f \in 1..Len(r.body.forms) :
                                              r.body.forms[f].cls = "cas__login-form"
          [] strategy = "_simple_auth" -> \E f \in 1..Len(r.body.forms) :
                                              /\ args.form_attr.id # None =>
                                                    r.body.forms[f].id = args.form_attr.id
                                              /\ args.form_attr.cls # None =>
                                                    r.body.forms[f].cls = args.form_attr.cls
          [] strategy = "_open_ent_ng" -> Contains(r.url, "login")
          [] strategy = "_oze_ent"     -> Contains(r.body.text, "auth_form")

\* C3 as claimed: once the credential POST of a form strategy is answered,
\* the call is rejected exactly when the marker is in that response, and
\* without the marker the call has returned the jar holding the cookies of
\* all its requests.
C3_RejectedIffMarker ==
    (strategy \in FormStrategies /\ Done /\ Answered(CredIndex)) =>
        /\ LoginRejected <=> RejectionMarker
        /\ ~RejectionMarker => (ReturnedCookies /\ outcome.cookies = CookiesSet)

\* C3, amended: once the credential POST is answered, the call is rejected
\* exactly when the marker is in that response; without the marker _cas,
\* _simple_auth and _open_ent_ng have returned the jar holding the cookies of
\* all their requests, while _oze_ent goes on to its API requests and ends
\* either returning that jar or in a failure that is not a login rejection.
C3_RejectedIffMarkerOze ==
    (strategy \in FormStrategies /\ Answered(CredIndex)) =>
        /\ LoginRejected <=> RejectionMarker
        /\ RejectionMarker => Done
        /\ (~RejectionMarker /\ strategy # "_oze_ent") =>
                (Done /\ ReturnedCookies /\ outcome.cookies = CookiesSet)
        /\ (~RejectionMarker /\ strategy = "_oze_ent" /\ Done) =>
                \/ ReturnedCookies /\ outcome.cookies = CookiesSet
                \/ Raised /\ ~LoginRejected

\* An Oze call got past an accepted login and returned its jar.
C3_Witness ==
    /\ strategy = "_oze_ent"
    /\ Answered(CredIndex)
    /\ ~RejectionMarker
    /\ ReturnedCookies
    /\ outcome.cookies # {}

-----------------------------------------------------------------------------
(* C4.                                                                     *)

\* The requests whose reply is handed to _sso_redirect as its `response`.
ResolverEntry(i) ==
    \/ log[i].label \in {"hub_get", "edu_post"}
    \/ log[i].label \in {"casedu_get", "wayf_get"} /\ args.redirect_form

\* The artifact kind and the request_url of the _sso_redirect call that
\* inspects the reply of request i.
ResolverKind(i) ==
    IF log[i].label \in {"hub_get", "wayf_get"} THEN "SAMLRequest" ELSE "SAMLResponse"

ResolverRequestUrl(i) ==
    IF log[i].label = "wayf_get" THEN args.domain \o "/discovery/WAYF" ELSE log[i].url

HasArtifact(body, kind) ==
    \E e \in 1..Len(body.elems) :
        body.elems[e].tag = "input" /\ body.elems[e].name = kind

\* The first response of a resolver call asks for the manual redirect.
WantsManual(i) ==
    /\ log[i].resp.status = 200
    /\ ~HasArtifact(log[i].resp.body, ResolverKind(i))
    /\ log[i].resp.url # ResolverRequestUrl(i)

\* C4: _sso_redirect takes the manual-redirect path at most once per call.  A
\* manual-redirect request directly follows the first response of a resolver
\* call, and that response has status 200, no artifact of the kind asked for
\* and a URL other than request_url; every such first response is followed by
\* exactly one manual-redirect request; and when its reply has no artifact
\* either, the resolver issues no further request and returns None (its
\* caller raises, returns None, or falls back to Open ENT NG).
C4_ManualRedirectOnce ==
    \A i \in 1..Len(log) :
        /\ log[i].label = "sso_manual" =>
              /\ i > 1
              /\ ResolverEntry(i - 1)
              /\ WantsManual(i - 1)
              /\ log[i].method = "POST"
              /\ log[i].url = log[i - 1].resp.url
        /\ (ResolverEntry(i) /\ Answered(i) /\ WantsManual(i)) =>
              /\ Len(log) > i
              /\ log[i + 1].label = "sso_manual"
        /\ (log[i].label = "sso_manual" /\ Answered(i)
            /\ ~HasArtifact(log[i].resp.body, ResolverKind(i - 1))) =>
              /\ \A j \in (i + 1)..Len(log) : log[j].label = "ng_post"
              /\ Len(log) = i =>
                    /\ Done
                    /\ \/ Raised /\ outcome.exc = "ENTLoginError"
                       \/ strategy = "_educonnect" /\ outcome.value = "None"

\* A manual redirect whose reply had no artifact ended a call in
\* "Connection failure" after exactly two requests.
C4_Witness ==
    /\ Len(log) = 2
    /\ log[2].label = "sso_manual"
    /\ Answered(2)
    /\ ~HasArtifact(log[2].resp.body, ResolverKind(1))
    /\ log[2].resp.status = 200
    /\ Raised
    /\ outcome.msg = "Connection failure"

-----------------------------------------------------------------------------
(* C5.                                                                     *)

\* The host of the url the Oze calls are made with.
HostOfUrl == IF Contains(args.url, EntHost) THEN EntHost ELSE ""

\* The keys generic_auth passes to post_form with the credentials are kept:
\* the credential POST carries the username under the name of the page's
\* text input and the password under the name of its password input.
PostFormKeepsPayload ==
    \A i \in 2..Len(log) :
        log[i].label = "ga_cred" =>
            LET page == log[i - 1].resp.body
                fu   == form_field_user(page)
                fp   == form_field_password(page)
            IN  /\ fp \in DOMAIN log[i].data /\ log[i].data[fp] = args.password
                /\ fu # fp => (fu \in DOMAIN log[i].data /\ log[i].data[fu] = args.username)

\* C5 as claimed: a key of the payload passed to post_form keeps its value,
\* and the credential POST of _cas, _simple_auth and _oze_ent carries the
\* caller's username and password whatever the form's inputs hold.
C5_CallerValuesWin ==
    /\ PostFormKeepsPayload
    /\ \A i \in 1..Len(log) :
          log[i].label \in {"cas_post", "sa_post", "oze_post"} =>
              /\ log[i].data["username"] = args.username
              /\ log[i].data["password"] = args.password

\* C5, amended: a key of the payload passed to post_form keeps its value, and
\* the credential POST of _cas, _simple_auth and _oze_ent carries the caller's
\* password and the caller's username (in _oze_ent with "@<host>" appended
\* when the username does not contain the host), never the value of a form
\* input of that name.
C5_CallerValuesWinOze ==
    /\ PostFormKeepsPayload
    /\ \A i \in 1..Len(log) :
          /\ log[i].label \in {"cas_post", "sa_post"} =>
                /\ log[i].data["username"] = args.username
                /\ log[i].data["password"] = args.password
          /\ log[i].label = "oze_post" =>
                /\ log[i].data["password"] = args.password
                /\ log[i].data["username"] =
                      IF Contains(args.username, HostOfUrl) THEN args.username
                      ELSE args.username \o "@" \o HostOfUrl

\* Credentials were posted from a page whose form holds other values for
\* them, by _cas and by generic_auth's post_form.
C5_Witness ==
    /\ Len(log) = 2
    /\ log[2].label \in {"cas_post", "ga_cred"}
    /\ \E e \in 1..Len(log[1].resp.body.elems) :
          /\ log[1].resp.body.elems[e].name = "username"
          /\ log[1].resp.body.elems[e].value = "bob"
    /\ log[2].data["username"] = UserName

-----------------------------------------------------------------------------
(* C6.                                                                     *)

\* C6: in _open_ent_ng_edu, once _educonnect has returned None, the next
\* request is the Open ENT NG credential POST to <domain>/auth/login; when it
\* is answered the call is rejected if the resulting URL contains "login" and
\* has otherwise returned cookies.
C6_FallbackToOpenEntNg ==
    (strategy = "_open_ent_ng_edu" /\ locals.returned = "None") =>
        LET n == Len(log)
        IN  /\ n >= 3
            /\ log[n].label = "ng_post"
            /\ log[n - 1].label \in {"edu_post", "sso_manual", "sso_post"}
            /\ log[n].method = "POST"
            /\ log[n].url = args.domain \o "/auth/login"
            /\ DOMAIN log[n].data = {"email", "password"}
            /\ log[n].data["email"] = args.username
            /\ log[n].data["password"] = args.password
            /\ Answered(n) <=> Done
            /\ Done =>
                  IF Contains(log[n].resp.url, "login")
                  THEN LoginRejected
                  ELSE ReturnedCookies /\ outcome.cookies = jars[log[n].sess]

\* The fallback ran after _educonnect returned None and the call succeeded.
C6_Witness ==
    /\ strategy = "_open_ent_ng_edu"
    /\ locals.returned = "None"
    /\ ReturnedCookies
    /\ ~Contains(log[Len(log)].resp.url, "login")

-----------------------------------------------------------------------------
(* C7.                                                                     *)

\* C7 as claimed: a _hubeduconnect call whose initial GET was answered with a
\* body holding the "empty service URL" marker ends in the failure "Service
\* URL not provided".
C7_EmptyServiceMarker ==
    (/\ strategy = "_hubeduconnect"
     /\ Answered(1)
     /\ Contains(log[1].resp.body.text, HubEmptyService)
     /\ Done) =>
        /\ Raised
        /\ outcome.msg = "Fail to connect with HubEduConnect : Service URL not provided."

-----------------------------------------------------------------------------
(* C8.                                                                     *)

\* Every jar holds exactly the cookies set by the replies to its session's
\* requests: nothing is cleared, replaced or merged in.
JarsAccumulate ==
    \A s \in 1..Len(jars) : jars[s] = {i \in CookiesSet : log[i].sess = s}

\* C8 as claimed: all requests of a call go through one Session, and the jar
\* returned holds the cookies set by every request of the call.
C8_OneSession ==
    /\ JarsAccumulate
    /\ \A i, j \in 1..Len(log) : log[i].sess = log[j].sess
    /\ ReturnedCookies => outcome.cookies = CookiesSet

\* C8, amended: no jar is ever cleared or replaced; all requests of a call go
\* through one Session and the jar returned holds the cookies set by every
\* request, except on the fallback path of _open_ent_ng_edu, where the Open
\* ENT NG POST goes through a second, new Session and the jar returned holds
\* only the cookies of that POST.
C8_OneSessionButFallback ==
    /\ JarsAccumulate
    /\ \A i, j \in 1..Len(log) :
          log[i].sess # log[j].sess =>
              /\ strategy = "_open_ent_ng_edu"
              /\ (log[i].label = "ng_post") # (log[j].label = "ng_post")
    /\ \A i \in 1..Len(log) :
          (strategy = "_open_ent_ng_edu" /\ log[i].label = "ng_post") =>
              /\ i = Len(log)
              /\ log[i].sess = 2
              /\ \A j \in 1..(i - 1) : log[j].sess = 1
    /\ ReturnedCookies =>
          outcome.cookies = {i \in CookiesSet : log[i].sess = log[Len(log)].sess}

\* The fallback returned a jar without the cookies of the Educonnect leg.
C8_Witness ==
    /\ strategy = "_open_ent_ng_edu"
    /\ ReturnedCookies
    /\ Len(jars) = 2
    /\ jars[1] # {}
    /\ outcome.cookies = jars[2]
    /\ outcome.cookies # {}

-----------------------------------------------------------------------------
(* C9.                                                                     *)

\* C9 as claimed: every request of every call carries the HEADERS
\* User-Agent.
C9_UserAgentEverywhere ==
    \A i \in 1..Len(log) :
        /\ "User-Agent" \in DOMAIN log[i].headers
        /\ log[i].headers["User-Agent"] = USER_AGENT

-----------------------------------------------------------------------------
(* C10.                                                                    *)

\* The inputs of the first form of class cas__login-form in a page.
CasFormInputs(body) ==
    LET fs == {f \in 1..Len(body.forms) : body.forms[f].cls = "cas__login-form"}
        f0 == CHOOSE f \in fs : \A g \in fs : f <= g
    IN  {e \in 1..Len(body.elems) :
            body.elems[e].tag = "input" /\ body.elems[e].form = f0}

\* C10: the credential POST of _cas goes to the URL of the login page's
\* response (after redirects); its payload has exactly the names of the
\* inputs of the cas__login-form form plus username and password, each input
\* with its value, username and password with the caller's; and when the
\* reply to it holds no such form the call has returned the session's jar.
C10_CasFlow ==
    (strategy = "_cas" /\ Len(log) >= 2) =>
        LET page   == log[1].resp.body
            inputs == CasFormInputs(page)
            data   == log[2].data
        IN  /\ Len(log) = 2
            /\ log[2].method = "POST"
            /\ log[2].url = log[1].resp.url
            /\ DOMAIN data = {page.elems[e].name : e \in inputs} \cup {"username", "password"}
            /\ data["username"] = args.username
            /\ data["password"] = args.password
            /\ \A e \in inputs :
                  page.elems[e].name \notin {"username", "password"} =>
                      data[page.elems[e].name] = page.elems[e].value
            /\ (Answered(2)
                /\ \A f \in 1..Len(log[2].resp.body.forms) :
                      log[2].resp.body.forms[f].cls # "cas__login-form") =>
                  /\ ReturnedCookies
                  /\ outcome.cookies = jars[sess]
                  /\ outcome.cookies = CookiesSet

\* The scenario of the specification: lt and execution are posted with the
\* credentials to the redirected URL and the call succeeds.
C10_Witness ==
    /\ strategy = "_cas"
    /\ Len(log) = 2
    /\ log[1].resp.url # log[1].url
    /\ log[2].data = [lt |-> "LT-1", execution |-> "e1",
                      username |-> "alice", password |-> "secret"]
    /\ ReturnedCookies
    /\ outcome.cookies = {1, 2}

-----------------------------------------------------------------------------
(* C11.                                                                    *)

\* The page fetched by generic_auth holds neither a SAML artifact nor a
\* password field.
PlainPageFetched ==
    /\ strategy = "generic_auth"
    /\ Answered(1)
    /\ log[1].resp.status < 400
    /\ \A e \in 1..Len(log[1].resp.body.elems) :
          LET el == log[1].resp.body.elems[e]
          IN  ~(el.tag = "input"
                /\ (el.name \in {"SAMLRequest", "SAMLResponse"} \/ el.type = "password"))

\* No request of the call carries the caller's password.
NoCredentialRequest ==
    \A i \in 1..Len(log) :
        \A k \in DOMAIN log[i].data : log[i].data[k] # args.password

\* C11 as claimed: when the page fetched by generic_auth holds neither a SAML
\* artifact nor a password field, the call returns the session's cookie jar
\* as it is, and no request carrying the credentials is issued.
C11_PlainPageReturnsJar ==
    PlainPageFetched =>
        /\ Done
        /\ ReturnedCookies
        /\ outcome.cookies = jars[sess]
        /\ NoCredentialRequest

\* C11, amended: when the page fetched by generic_auth holds neither a SAML
\* artifact nor a password field, the call ends after that one GET by
\* returning None, not a cookie jar (cookies the reply set stay in the
\* session and are not handed to the caller), and no request carrying the
\* credentials is issued.
C11_PlainPageReturnsNone ==
    PlainPageFetched =>
        /\ Done
        /\ outcome.kind = "return"
        /\ outcome.value = "None"
        /\ outcome.cookies = {}
        /\ Len(log) = 1
        /\ NoCredentialRequest

\* A plain page whose reply set a cookie was fetched and None was returned.
C11_Witness ==
    /\ PlainPageFetched
    /\ log[1].resp.cookie
    /\ jars[sess] = {1}
    /\ outcome.value = "None"

-----------------------------------------------------------------------------
(* C12.                                                                    *)

\* C12: the username of the credential POST of _oze_ent is the caller's
\* username unchanged when it contains the host of url, and otherwise the
\* caller's username followed by one "@<host>" and nothing else.
C12_OzeUsernameNormalized ==
    \A i \in 1..Len(log) :
        log[i].label = "oze_post" =>
            LET sent == log[i].data["username"]
                n    == Len(args.username)
            IN  /\ HostOfUrl = EntHost
                /\ IF \E k \in 1..(n - Len(EntHost) + 1) :
                         SubSeq(args.username, k, k + Len(EntHost) - 1) = EntHost
                   THEN sent = args.username
                   ELSE /\ Len(sent) = n + 1 + Len(EntHost)
                        /\ SubSeq(sent, 1, n) = args.username
                        /\ SubSeq(sent, n + 1, Len(sent)) = "@ent.example.org"

\* Both cases were submitted: a bare username got the suffix, or a username
\* already holding the host went out unchanged.
C12_Witness ==
    /\ strategy = "_oze_ent"
    /\ Len(log) = 2
    /\ log[2].label = "oze_post"
    /\ args.username = "alice"
    /\ log[2].data["username"] = "alice@ent.example.org"

-----------------------------------------------------------------------------
(* C13.                                                                    *)

\* The reply to request i is the page _sso_redirect looks for the artifact
\* in after its manual-redirect test (lines 123-137), and the kind asked for.
ResolverPage(i) ==
    /\ Answered(i)
    /\ \/ ResolverEntry(i) /\ ~WantsManual(i)
       \/ log[i].label = "sso_manual"

ResolverPageKind(i) ==
    IF log[i].label = "sso_manual" THEN ResolverKind(i - 1) ELSE ResolverKind(i)

\* The value of the first input of that name in a page.
InputValue(body, name) ==
    LET hits == {e \in 1..Len(body.elems) :
                    body.elems[e].tag = "input" /\ body.elems[e].name = name}
    IN  body.elems[CHOOSE e \in hits : \A g \in hits : e <= g].value

\* C13 as claimed: when the page _sso_redirect inspects holds the artifact
\* asked for inside a form, the next request is a POST to the form's target
\* whose payload is the artifact alone when the page has no RelayState field,
\* and the artifact with RelayState when it has one.
C13_RelayStateOptional ==
    \A i \in 1..Len(log) :
        LET body == log[i].resp.body
            kind == ResolverPageKind(i)
        IN  (/\ ResolverPage(i)
             /\ HasArtifact(body, kind)
             /\ body.forms # <<>>
             /\ body.forms[1].action # None) =>
                /\ Len(log) > i
                /\ log[i + 1].label = "sso_post"
                /\ log[i + 1].method = "POST"
                /\ IF HasArtifact(body, "RelayState")
                   THEN /\ DOMAIN log[i + 1].data = {kind, "RelayState"}
                        /\ log[i + 1].data["RelayState"] = InputValue(body, "RelayState")
                   ELSE DOMAIN log[i + 1].data = {kind}
                /\ log[i + 1].data[kind] = InputValue(body, kind)

-----------------------------------------------------------------------------
(* C14.                                                                    *)

\* A page holds a SAML artifact: an input named SAMLRequest or SAMLResponse
\* with a value.
HasSamlValue(body) ==
    \E e \in 1..Len(body.elems) :
        /\ body.elems[e].tag = "input"
        /\ body.elems[e].name \in {"SAMLRequest", "SAMLResponse"}
        /\ body.elems[e].value \notin {None, ""}

\* A page holds a named password field.
HasPasswordField(body) ==
    \E e \in 1..Len(body.elems) :
        /\ body.elems[e].tag = "input"
        /\ body.elems[e].type = "password"
        /\ body.elems[e].name \notin {None, ""}

\* generic_auth found a SAML artifact on the page it fetched.
SamlFirst ==
    /\ strategy = "generic_auth"
    /\ Answered(1)
    /\ log[1].resp.status < 400
    /\ HasSamlValue(log[1].resp.body)

GoodReply(i) == Answered(i) /\ log[i].resp.status < 400

\* C14: in generic_auth, once a SAML artifact was found on the first page,
\* the call ends in a raised failure when the reply of the IdP leg holds no
\* password field, and when the reply to the credentials holds no SAML
\* artifact; cookies are returned only after exactly GET, form POST (IdP),
\* credential POST, form POST (SP), with both present; and with both present
\* that sequence is issued and, once the SP leg is answered, the cookies are
\* returned (a failed request or a page without a form ends the call in a
\* raised failure on the way).
C14_SamlLegs ==
    SamlFirst =>
        /\ (GoodReply(2) /\ ~HasPasswordField(log[2].resp.body)) =>
              Done /\ Raised /\ Len(log) = 2
        /\ (GoodReply(3) /\ ~HasSamlValue(log[3].resp.body)) =>
              Done /\ Raised /\ Len(log) = 3
        /\ (Done /\ ~Raised) =>
              /\ ReturnedCookies
              /\ outcome.cookies = jars[sess]
              /\ Len(log) = 4
              /\ <<log[1].method, log[2].method, log[3].method, log[4].method>>
                    = <<"GET", "POST", "POST", "POST">>
              /\ <<log[1].label, log[2].label, log[3].label, log[4].label>>
                    = <<"ga_get", "ga_idp", "ga_cred", "ga_sp">>
              /\ HasPasswordField(log[2].resp.body)
              /\ HasSamlValue(log[3].resp.body)
              /\ \A k \in DOMAIN log[2].data : log[2].data[k] # args.password
              /\ \E k \in DOMAIN log[3].data : log[3].data[k] = args.password
              /\ \A k \in DOMAIN log[4].data : log[4].data[k] # args.password
        /\ (GoodReply(2) /\ HasPasswordField(log[2].resp.body)
            /\ GoodReply(3) /\ HasSamlValue(log[3].resp.body)) =>
              \/ Len(log) = 4 /\ log[4].label = "ga_sp"
              \/ Done /\ Raised /\ outcome.exc \in {"TypeError", "KeyError"}
        /\ GoodReply(4) => ReturnedCookies
        /\ Len(log) <= 4

\* The four requests were made and the cookies returned.
C14_Witness ==
    /\ SamlFirst
    /\ Len(log) = 4
    /\ HasPasswordField(log[2].resp.body)
    /\ HasSamlValue(log[3].resp.body)
    /\ ReturnedCookies
    /\ outcome.cookies # {}

-----------------------------------------------------------------------------
(* C15.                                                                    *)

\* C15 as claimed: the request of the manual-redirect path is the request
\* that preceded it over again: same URL, method, headers and payload.
C15_ManualRepeatsRequest ==
    \A i \in 2..Len(log) :
        log[i].label = "sso_manual" =>
            /\ log[i].url = log[i - 1].url
            /\ log[i].method = log[i - 1].method
            /\ log[i].headers = log[i - 1].headers
            /\ log[i].data = log[i - 1].data

\* C15, amended: the request of the manual-redirect path is a POST, with the
\* same HEADERS as the request before it, to the URL of the response to that
\* request, which is not the URL the resolver was told had been requested;
\* its payload is the request_payload its caller passed: the credentials
\* payload over again in _educonnect, and nothing in _cas_edu, _wayf and
\* _hubeduconnect, whose first request was a GET.
C15_ManualFollowsResponse ==
    \A i \in 2..Len(log) :
        log[i].label = "sso_manual" =>
            /\ log[i].method = "POST"
            /\ log[i].url = log[i - 1].resp.url
            /\ log[i].url # ResolverRequestUrl(i - 1)
            /\ log[i].headers = HEADERS
            /\ log[i].headers = log[i - 1].headers
            /\ log[i].sess = log[i - 1].sess
            /\ IF log[i - 1].label = "edu_post"
               THEN /\ log[i - 1].method = "POST"
                    /\ log[i].data = log[i - 1].data
                    /\ log[i].data["j_password"] = args.password
               ELSE /\ log[i - 1].method = "GET"
                    /\ log[i].data = EmptyDict

\* A manual redirect followed the credentials POST of _educonnect, whose
\* reply came from another URL, and carried the credentials again.
C15_Witness ==
    /\ Len(log) >= 2
    /\ log[Len(log)].label = "sso_manual"
    /\ log[Len(log) - 1].label = "edu_post"
    /\ log[Len(log) - 1].resp.url # log[Len(log) - 1].url
    /\ log[Len(log)].data = log[Len(log) - 1].data

-----------------------------------------------------------------------------
(* C16.                                                                    *)

\* Request i belongs to a run of _educonnect: its credentials POST, or a
\* request of the _sso_redirect call that follows it.
EduStage(i) ==
    \E j \in 1..i :
        /\ log[j].label = "edu_post"
        /\ \A k \in (j + 1)..i : log[k].label \in {"sso_manual", "sso_post"}

\* The redirect of a run of _educonnect is missing after the reply to
\* request i: the page the resolver inspects holds no SAMLResponse.
NoRedirectAt(i) ==
    /\ EduStage(i)
    /\ ResolverPage(i)
    /\ ~HasArtifact(log[i].resp.body, "SAMLResponse")

\* The page the resolver inspects after request i is malformed: it holds the
\* artifact but no form to post it with.
MalformedSamlAt(i) ==
    /\ EduStage(i)
    /\ ResolverPage(i)
    /\ HasArtifact(log[i].resp.body, "SAMLResponse")
    /\ log[i].resp.body.forms = <<>>

\* The exceptions flag _educonnect runs with.
ExceptionsFlag ==
    CASE strategy = "_open_ent_ng_edu" -> FALSE
      [] strategy = "_educonnect"      -> args.exceptions
      [] OTHER                         -> TRUE

EduRejected ==
    /\ Raised
    /\ outcome.msg = "Fail to connect with EduConnect : probably wrong login information"

\* C16 as claimed: in _open_ent_ng_edu the Open ENT NG request is issued only
\* after _educonnect returned no response for a missing redirect, or a
\* response whose URL contains "login"; a failure during the Educonnect leg
\* (an HTTP error status, a malformed SAML page) ends the call in a raised
\* failure at that request, with no Open ENT NG request; and _educonnect
\* raises on a missing redirect exactly when its exceptions flag is true and
\* returns None exactly when it is false.
C16_FallbackOnlyOnNoResponse ==
    /\ \A i \in 1..Len(log) :
          /\ (strategy = "_open_ent_ng_edu" /\ log[i].label = "ng_post") =>
                /\ i > 1
                /\ \/ NoRedirectAt(i - 1)
                   \/ /\ log[i - 1].label = "sso_post"
                      /\ log[i - 1].resp.status < 400
                      /\ Contains(log[i - 1].resp.url, "login")
          /\ (strategy = "_open_ent_ng_edu" /\ log[i].label # "ng_post" /\ Answered(i)
              /\ (log[i].resp.status >= 400 \/ MalformedSamlAt(i))) =>
                /\ Done
                /\ Raised
                /\ Len(log) = i
          /\ NoRedirectAt(i) =>
                IF ExceptionsFlag
                THEN Done /\ EduRejected /\ Len(log) = i
                ELSE /\ strategy = "_educonnect" => (Done /\ outcome.value = "None")
                     /\ strategy = "_open_ent_ng_edu" =>
                            (Len(log) > i /\ log[i + 1].label = "ng_post")
    /\ EduRejected =>
          /\ ExceptionsFlag
          /\ \/ NoRedirectAt(Len(log))
             \/ log[Len(log)].label = "sso_post" /\ log[Len(log)].resp.status >= 400

-----------------------------------------------------------------------------
(* C17.                                                                    *)

RedirectStrategies == {"_cas_edu", "_wayf", "_hubeduconnect"}

\* No request of the call carries the caller's username or password.
NoCredentialsSent ==
    \A i \in 1..Len(log) :
        \A k \in DOMAIN log[i].data :
            log[i].data[k] \notin {args.username, args.password}

\* The reply to request i is the response the redirect step of _cas_edu,
\* _wayf or _hubeduconnect hands on: the reply to the artifact POST, or the
\* reply to the GET when redirect_form is off; it is a success and, in
\* _hubeduconnect, shows none of the failure markers.
RedirectYields(i) ==
    /\ ~EduStage(i)
    /\ Answered(i)
    /\ log[i].resp.status < 400
    /\ \/ log[i].label = "sso_post"
       \/ log[i].label \in {"casedu_get", "wayf_get"} /\ ~args.redirect_form
    /\ strategy = "_hubeduconnect" =>
          /\ ~Contains(log[i].resp.body.text, HubEmptyService)
          /\ ~Contains(log[i].resp.body.text, HubUntrusted)

\* C17: in _cas_edu, _wayf and _hubeduconnect, when the redirect step finds
\* no artifact the call ends in "Connection failure" and no request of it
\* carried the username or the password; when the step yields a response,
\* the next request is the Educonnect credentials POST to that response's
\* URL.
C17_RedirectThenEduconnect ==
    strategy \in RedirectStrategies =>
        /\ \A i \in 1..Len(log) :
              /\ (~EduStage(i) /\ ResolverPage(i)
                  /\ ~HasArtifact(log[i].resp.body, ResolverPageKind(i))) =>
                    /\ Done
                    /\ Raised
                    /\ outcome.exc = "ENTLoginError"
                    /\ outcome.msg = "Connection failure"
                    /\ Len(log) = i
              /\ RedirectYields(i) =>
                    /\ Len(log) > i
                    /\ log[i + 1].label = "edu_post"
                    /\ log[i + 1].method = "POST"
                    /\ log[i + 1].url = log[i].resp.url
                    /\ log[i + 1].data["j_username"] = args.username
                    /\ log[i + 1].data["j_password"] = args.password
              /\ log[i].label = "edu_post" => (i > 1 /\ RedirectYields(i - 1))
        /\ (Raised /\ outcome.msg = "Connection failure") => NoCredentialsSent

\* The artifact POST of _wayf was answered from another URL and the
\* credentials went to that URL.
C17_Witness ==
    /\ strategy = "_wayf"
    /\ Len(log) >= 3
    /\ log[Len(log)].label = "edu_post"
    /\ log[Len(log) - 1].label = "sso_post"
    /\ log[Len(log) - 1].resp.url # log[Len(log) - 1].url
    /\ log[Len(log)].url = log[Len(log) - 1].resp.url

-----------------------------------------------------------------------------
(* C18.                                                                    *)

\* The failures of the module's own error taxonomy: ENTLoginError, and the
\* HTTP error AuthSession raises for an error status.
TypedFailures == {"ENTLoginError", "HTTPError"}

\* C18 as claimed: when the page _sso_redirect inspects holds the artifact
\* but no form, the call ends in a typed failure and no artifact POST is
\* issued; and every failure of a call is a typed failure.
C18_TypedFailures ==
    /\ \A i \in 1..Len(log) :
          (/\ ResolverPage(i)
           /\ HasArtifact(log[i].resp.body, ResolverPageKind(i))
           /\ log[i].resp.body.forms = <<>>) =>
              /\ Done
              /\ Raised
              /\ outcome.exc \in TypedFailures
              /\ Len(log) = i
    /\ Raised => outcome.exc \in TypedFailures

-----------------------------------------------------------------------------
(* C19.                                                                    *)

\* The action of the first form of a page.
FormAction(body) == body.forms[1].action

HasFormAction(body) == body.forms # <<>> /\ body.forms[1].action # None

IsAbsolute(url) == StartsWith(url, "http://") \/ StartsWith(url, "https://")

\* The reply to request i is a page whose form _sso_redirect submits.
ResolverSubmits(i) ==
    /\ ResolverPage(i)
    /\ HasArtifact(log[i].resp.body, ResolverPageKind(i))
    /\ HasArtifact(log[i].resp.body, "RelayState")
    /\ HasFormAction(log[i].resp.body)

\* The reply to generic_auth's GET is a page whose form post_form submits: a
\* SAML page, or a login form with a user and a password field.
PostFormSubmits ==
    /\ strategy = "generic_auth"
    /\ GoodReply(1)
    /\ HasFormAction(log[1].resp.body)
    /\ \/ HasSamlValue(log[1].resp.body)
       \/ /\ HasPasswordField(log[1].resp.body)
          /\ \E e \in 1..Len(log[1].resp.body.elems) :
                /\ log[1].resp.body.elems[e].tag = "input"
                /\ log[1].resp.body.elems[e].type = "text"
                /\ log[1].resp.body.elems[e].name \notin {None, ""}

\* C19 as claimed: when post_form or _sso_redirect submits a page's form, the
\* POST goes to the form's action resolved against the URL of the response
\* that held the page, whatever the shape of the action (absolute, rooted or
\* document-relative): the request is made, and to an absolute URL.
C19_ActionResolved ==
    /\ \A i \in 1..Len(log) :
          ResolverSubmits(i) =>
              /\ Len(log) > i
              /\ log[i + 1].label = "sso_post"
              /\ log[i + 1].url = urljoin(log[i].resp.url, FormAction(log[i].resp.body))
              /\ IsAbsolute(log[i + 1].url)
    /\ PostFormSubmits =>
          /\ Len(log) > 1
          /\ log[2].label \in {"ga_idp", "ga_cred"}
          /\ log[2].url = urljoin(log[1].resp.url, FormAction(log[1].resp.body))
          /\ IsAbsolute(log[2].url)

-----------------------------------------------------------------------------
(* C20.                                                                    *)

\* The reply to request i is an apps listing: a JSON array of apps, each
\* with a code, the pronote ones with an externalRoute.
AppsListing(i) ==
    /\ log[i].label = "oze_apps"
    /\ Answered(i)
    /\ log[i].resp.body.json.json
    /\ log[i].resp.body.json.array
    /\ \A k \in 1..Len(log[i].resp.body.json.items) :
          LET app == log[i].resp.body.json.items[k]
          IN  /\ "code" \in DOMAIN app
              /\ app.code = "pronote" => "externalRoute" \in DOMAIN app

PronoteApps(i) ==
    {k \in 1..Len(log[i].resp.body.json.items) :
        log[i].resp.body.json.items[k].code = "pronote"}

\* The reply to request i is a Pronote configuration, and whether it holds
\* both identifiers.
ConfigReply(i) ==
    /\ log[i].label = "oze_config"
    /\ Answered(i)
    /\ log[i].resp.body.json.json
    /\ ~log[i].resp.body.json.array
    /\ {"autorisationId", "projet"} \subseteq DOMAIN log[i].resp.body.json.obj

ConfigYields(i) ==
    /\ log[i].resp.body.json.obj.autorisationId # ""
    /\ log[i].resp.body.json.obj.projet # ""

\* C20: in _oze_ent the Pronote-config endpoint is requested exactly when the
\* apps listing holds no app whose code is "pronote"; with such an app the
\* next and last request is a GET to its externalRoute (joined to url),
\* without one it is a GET to <url>cas/proxySSO/<autorisationId>?uai=<uai>
\* &projet=<projet>&fonction=ELV built from the configuration; cookies are
\* returned only after that GET; and a configuration without the identifiers
\* ends the call in a raised failure, no cookies returned.
C20_OzeProxySso ==
    strategy = "_oze_ent" =>
        /\ \A i \in 1..Len(log) :
              /\ AppsListing(i) =>
                    /\ Len(log) > i
                    /\ log[i + 1].method = "GET"
                    /\ (log[i + 1].label = "oze_config") <=> (PronoteApps(i) = {})
                    /\ PronoteApps(i) # {} =>
                          /\ log[i + 1].label = "oze_proxy"
                          /\ \E k \in PronoteApps(i) :
                                log[i + 1].url =
                                    "https://ent.example.org"
                                    \o log[i].resp.body.json.items[k].externalRoute
                    /\ PronoteApps(i) = {} =>
                          log[i + 1].url =
                              "https://api-ent.example.org/v1/config/Pronote"
                              \o "?ctx_profil=" \o log[i - 1].resp.body.json.obj.currentProfil.codeProfil
                              \o "&ctx_etab=" \o log[i - 1].resp.body.json.obj.currentProfil.uai
              /\ log[i].label = "oze_config" =>
                    (i > 1 /\ AppsListing(i - 1) /\ PronoteApps(i - 1) = {})
              /\ (ConfigReply(i) /\ ConfigYields(i)) =>
                    /\ Len(log) > i
                    /\ log[i + 1].label = "oze_proxy"
                    /\ log[i + 1].method = "GET"
                    /\ log[i + 1].url =
                          args.url \o "cas/proxySSO/"
                          \o log[i].resp.body.json.obj.autorisationId
                          \o "?uai=" \o log[i - 2].resp.body.json.obj.currentProfil.uai
                          \o "&projet=" \o log[i].resp.body.json.obj.projet
                          \o "&fonction=ELV"
              /\ (ConfigReply(i) /\ ~ConfigYields(i)) =>
                    /\ Len(log) = i
                    /\ Done
                    /\ Raised
                    /\ outcome.cookies = {}
              /\ log[i].label = "oze_proxy" =>
                    /\ i = Len(log)
                    /\ \/ AppsListing(i - 1) /\ PronoteApps(i - 1) # {}
                       \/ ConfigReply(i - 1) /\ ConfigYields(i - 1)
        /\ ReturnedCookies =>
              /\ log[Len(log)].label = "oze_proxy"
              /\ Answered(Len(log))
              /\ outcome.cookies = jars[sess]

\* The call went through the configuration endpoint and returned cookies.
C20_Witness ==
    /\ strategy = "_oze_ent"
    /\ Len(log) = 6
    /\ log[5].label = "oze_config"
    /\ log[6].url = "https://ent.example.org/cas/proxySSO/7?uai=0750001A&projet=PRONOTE&fonction=ELV"
    /\ ReturnedCookies

====
